---- MODULE Spec2Model ----
(***************************************************************************)
(* A model of the goanthropic client: the tool interaction loop            *)
(* (ChatWithTools with a handler map), the single-request ChatWithTools of *)
(* goanthropic.go, the two parameter validators and the conversation       *)
(* store (append and sliding-window trim).                                 *)
(*                                                                         *)
(* Go values are modelled as records with every field present:             *)
(*   a pointer or slice carries a field "nil" (TRUE for the nil value);    *)
(*   an error is a record holding the format string of its fmt.Errorf and  *)
(*   the arguments; the nil error has the empty format string.             *)
(***************************************************************************)
EXTENDS Integers, Sequences, FiniteSets, TLC

VARIABLES
    conversation,    \* c.conversation: the history, a sequence of Message
    maxConvLength,   \* c.maxConvLength
    defaultParams,   \* c.defaultParams
    systemPrompt,    \* c.systemPrompt
    pc,              \* position of the running call
    params,          \* the params argument (loop) or finalParams (single request)
    handlers,        \* the handlers argument: the set of tool names that have a handler
    iterations,      \* the loop's iterations counter
    reqBody,         \* the request handed to sendRequest
    resp,            \* the response of the current iteration
    toolCalls,       \* extractToolCalls(resp) of the current iteration
    callIdx,         \* index of the range loop over toolCalls
    resultContents,  \* the results collected in the current iteration
    ret,             \* what the call returned: (response, error), or a panic
    sends,           \* history variable: number of sendRequest calls of this call
    rounds,          \* history variable: number of tool-result turns appended by this call
    respLog,         \* history variable: the responses sendRequest returned to this call
    callLog,         \* history variable: the handler invocations of the current iteration
    before,          \* history variable: the conversation before the last store operation / the call
    lastOp,          \* history variable: the last store operation
    ctxDone,         \* ctx: whether the call's context has been cancelled
    invocations,     \* the calls running side by side on the client: each one's position and locals
    overlapped,      \* history variable: a call started while another was running
    manager,         \* a ToolManager: its tools and its handlers
    lastArg,         \* history variable: the length given to the last WithMaxConversationLength
    debug            \* the package's debug log: isDebugEnabled, debugLogFile, debugMutex, the files, the callers

vars == <<conversation, maxConvLength, defaultParams, systemPrompt, pc, params,
          handlers, iterations, reqBody, resp, toolCalls, callIdx, resultContents,
          ret, sends, rounds, respLog, callLog, before, lastOp, ctxDone, invocations,
          overlapped, manager, lastArg, debug>>

\* The state no step of a single call touches: the side-by-side calls, the tool
\* manager and the record of the last option.
extraVars == <<invocations, overlapped, manager, lastArg, debug>>

(***************************************************************************)
(* Program constants                                                       *)
(***************************************************************************)
maxIterations == 10

RoleUser == "user"
RoleAssistant == "assistant"

ContentTypeText == "text"
ContentTypeToolUse == "tool_use"
ContentTypeToolResult == "tool_result"

StopReasonToolUse == "tool_use"
StopReasonEndTurn == "end_turn"
StopReasonMaxTokens == "max_tokens"
StopReasonStopSequence == "stop_sequence"

ToolChoiceAuto == "auto"
ToolChoiceNone == "none"
ToolChoiceTool == "tool"

(***************************************************************************)
(* Bounds of the model                                                     *)
(***************************************************************************)
\* Iterations in which the transport and the handlers answer from their full
\* repertoire; in the later iterations they answer from LateResponses and
\* handlers succeed.
MaxVaried == 1
\* Longest history the store specification builds.
MaxHist == 4
\* Largest bound WithMaxConversationLength is called with.
MaxConvLen == 3

(***************************************************************************)
(* Values                                                                  *)
(***************************************************************************)
NilInput == "<nil>"

\* MessageContent: the flat struct, zero values for the fields not given.
MessageContent(type, text, id, name, input, toolUseID, content, isError) ==
    [Type |-> type, Text |-> text, ID |-> id, Name |-> name, Input |-> input,
     ToolUseID |-> toolUseID, Content |-> content, IsError |-> isError]

TextContent(text) ==
    MessageContent(ContentTypeText, text, "", "", NilInput, "", "", FALSE)

ToolUseContent(id, name, input) ==
    MessageContent(ContentTypeToolUse, "", id, name, input, "", "", FALSE)

Message(role, content) == [Role |-> role, Content |-> content]

ToolUse(id, name, input) == [ID |-> id, Name |-> name, Input |-> input]

Tool(name) == [Name |-> name]

NilTools == [nil |-> TRUE, elems |-> <<>>]
Tools(elems) == [nil |-> FALSE, elems |-> elems]

NilToolChoice == [nil |-> TRUE, Type |-> "", Name |-> ""]
ToolChoice(type, name) == [nil |-> FALSE, Type |-> type, Name |-> name]

MessageParams(model, maxTokens, temperature, topP, topK, system, tools, toolChoice) ==
    [nil |-> FALSE, Model |-> model, MaxTokens |-> maxTokens, Temperature |-> temperature,
     TopP |-> topP, TopK |-> topK, System |-> system, Tools |-> tools,
     ToolChoice |-> toolChoice]

ZeroParams == MessageParams("", 0, 0, 0, 0, "", NilTools, NilToolChoice)
NilParams == [ZeroParams EXCEPT !.nil = TRUE]

Request(model, system, messages, maxTokens, temperature, topP, topK, tools, toolChoice) ==
    [Model |-> model, System |-> system, Messages |-> messages, MaxTokens |-> maxTokens,
     Temperature |-> temperature, TopP |-> topP, TopK |-> topK, Tools |-> tools,
     ToolChoice |-> toolChoice]

NoRequest == Request("", "", <<>>, 0, 0, 0, 0, NilTools, NilToolChoice)

AnthropicResponse(content, stopReason) ==
    [nil |-> FALSE, Content |-> content, StopReason |-> stopReason]

NilResponse == [nil |-> TRUE, Content |-> <<>>, StopReason |-> ""]

\* An error: the format string of the fmt.Errorf that made it, its %d and %s
\* arguments, and for %w the wrapped error's format string and argument.
Errorf(format, d, s, cause, causeArg) ==
    [fmt |-> format, d |-> d, s |-> s, cause |-> cause, causeArg |-> causeArg]

NilErr == Errorf("", 0, "", "", "")

\* A wrap with %v in place of %w: the cause is lost.
Wrap_opaque(format, d, err) == Errorf(format, d, "", "", "")

\* fmt.Errorf(format, ..., err) with %w.
Wrap(format, d, err) == Errorf(format, d, "", err.fmt, err.s)

\* What a call returned.
NoRet == [returned |-> FALSE, panic |-> FALSE, resp |-> NilResponse, err |-> NilErr]
Return(r, err) == [returned |-> TRUE, panic |-> FALSE, resp |-> r, err |-> err]
Panic == [returned |-> FALSE, panic |-> TRUE, resp |-> NilResponse, err |-> NilErr]

(***************************************************************************)
(* The tool manager (tools/misc/toolanthrop.go)                            *)
(***************************************************************************)
\* A handler argument: the nil function value, or a function.
NilHandler == "nil"
HandlerFunc == "func"

ErrNilHandler == Errorf("handler cannot be nil", 0, "", "", "")
ErrMissingHandler == Errorf("missing handler for tool", 0, "", "", "")

\* A ToolManager: tools is the slice of tool names, handlers the map from
\* name to handler.
ToolManager(tools, handlerMap) == [tools |-> tools, handlers |-> handlerMap]

\* A map without entries.
NoHandlers == [name \in {} |-> NilHandler]

NewToolManager == ToolManager(<<>>, NoHandlers)

\* tm.handlers[name] = handler
SetHandler(handlerMap, name, handler) ==
    [n \in DOMAIN handlerMap \cup {name} |-> IF n = name THEN handler ELSE handlerMap[n]]

\* What AddTool and AddTools leave: the manager and the error returned.
Added(tm, err) == [tm |-> tm, err |-> err]

\* An AddTool without the nil check.
AddTool_unchecked(tm, tool, handler) ==
    Added(ToolManager(Append(tm.tools, tool), SetHandler(tm.handlers, tool, handler)), NilErr)

\* AddTool: a nil handler is refused, else the tool is appended and its handler
\* stored under its name.
AddTool(tm, tool, handler) ==
    IF handler = NilHandler
    THEN Added(tm, ErrNilHandler)
    ELSE Added(ToolManager(Append(tm.tools, tool), SetHandler(tm.handlers, tool, handler)),
               NilErr)

RECURSIVE AddToolsFrom(_, _, _, _)
\* The range loop of AddTools from index i on: it returns at the first tool
\* without an entry in handlerMap or refused by AddTool, keeping what it added.
AddToolsFrom(tm, tools, handlerMap, i) ==
    IF i > Len(tools)
    THEN Added(tm, NilErr)
    ELSE IF tools[i] \notin DOMAIN handlerMap
    THEN Added(tm, ErrMissingHandler)
    ELSE LET added == AddTool(tm, tools[i], handlerMap[tools[i]])
         IN  IF added.err # NilErr
             THEN added
             ELSE AddToolsFrom(added.tm, tools, handlerMap, i + 1)

AddTools(tm, tools, handlerMap) == AddToolsFrom(tm, tools, handlerMap, 1)

\* GetTools and GetHandlers return the manager's slice and map.
GetTools(tm) == tm.tools
GetHandlers(tm) == tm.handlers

\* ValidateTool: the tool is declared and the map has an entry under its name.
ValidateTool(tm, toolName) ==
    /\ \E i \in 1..Len(tm.tools) : tm.tools[i] = toolName
    /\ toolName \in DOMAIN tm.handlers

(***************************************************************************)
(* The debug log (anthdebug.go)                                            *)
(***************************************************************************)
\* The nil *os.File.
NilFile == 0

\* The goroutines that use the debug log: one that turns it on and off, one
\* that logs.
Switcher == "switcher"
Logger == "logger"

\* The package variables as the program starts, no file created, nobody in a
\* call. created counts the files os.Create has made, open holds the files not
\* yet closed, at gives each goroutine's position, result the error its last
\* call returned; wroteClosed holds the functions that wrote to a closed file,
\* closedTwice and raced record a Close of a closed file and an unlocked read
\* made while the other goroutine was between Lock and Unlock.
NoDebug ==
    [ isDebugEnabled |-> FALSE,
      debugLogFile   |-> NilFile,
      debugMutex     |-> "free",
      created        |-> 0,
      open           |-> {},
      at             |-> [g \in {Switcher, Logger} |-> "idle"],
      result         |-> "none",
      wroteClosed    |-> {},
      closedTwice    |-> FALSE,
      raced          |-> FALSE ]

(***************************************************************************)
(* The conversation store (goanthropic.go)                                 *)
(***************************************************************************)
\* An assignment in place of the append: the earlier messages are lost.
addMessageToConversation_reset(conv, role, content) == <<Message(role, content)>>

\* addMessageToConversation: append one Message; nothing else.
addMessageToConversation(conv, role, content) ==
    Append(conv, Message(role, content))

\* A trim that keeps one message too many.
trimConversationHistory_offByOne(conv, maxLen) ==
    IF maxLen > 0 /\ Len(conv) > maxLen
    THEN SubSeq(conv, Len(conv) - maxLen, Len(conv))
    ELSE conv

\* A trim that keeps the oldest messages.
trimConversationHistory_oldest(conv, maxLen) ==
    IF maxLen > 0 /\ Len(conv) > maxLen
    THEN SubSeq(conv, 1, maxLen)
    ELSE conv

\* A trim that does not ask whether the bound is positive.
trimConversationHistory_anyBound(conv, maxLen) ==
    IF Len(conv) > maxLen
    THEN SubSeq(conv, Len(conv) - maxLen + 1, Len(conv))
    ELSE conv

\* trimConversationHistory: keep the last maxLen messages when the bound is
\* positive and exceeded.
trimConversationHistory(conv, maxLen) ==
    IF maxLen > 0 /\ Len(conv) > maxLen
    THEN SubSeq(conv, Len(conv) - maxLen + 1, Len(conv))
    ELSE conv

\* WithMaxConversationLength applied to a client whose bound is cur.
WithMaxConversationLength(cur, length) ==
    IF length > 0 THEN length ELSE cur

(***************************************************************************)
(* Parameter validation                                                    *)
(***************************************************************************)
\* validateToolParams of the tool loop; called with non-nil params only (the
\* action that calls it models the nil dereference).
validateToolParams(p) ==
    IF ~p.Tools.nil /\ Len(p.Tools.elems) > 0
    THEN IF p.ToolChoice.nil
         THEN Errorf("tool_choice must be specified when tools are provided", 0, "", "", "")
         ELSE IF /\ p.ToolChoice.Type # ToolChoiceAuto
                 /\ p.ToolChoice.Type # ToolChoiceNone
                 /\ p.ToolChoice.Type # ToolChoiceTool
         THEN Errorf("invalid tool_choice type: %s", 0, p.ToolChoice.Type, "", "")
         ELSE IF p.ToolChoice.Type = ToolChoiceTool /\ p.ToolChoice.Name = ""
         THEN Errorf("tool_choice name must be specified when type is 'tool'", 0, "", "", "")
         ELSE NilErr
    ELSE NilErr

\* validateToolParams of goanthropic.go.
validateToolParamsClient(p) ==
    IF p.nil
    THEN Errorf("message parameters cannot be nil", 0, "", "", "")
    ELSE IF p.Tools.nil
    THEN Errorf("tools cannot be nil", 0, "", "", "")
    ELSE IF p.ToolChoice.nil
    THEN Errorf("tool choice cannot be nil", 0, "", "", "")
    ELSE NilErr

(***************************************************************************)
(* Tool-call extraction                                                    *)
(***************************************************************************)
\* An extraction that takes every tool_use item, malformed or not.
extractFrom_unchecked(content, i) ==
    LET isToolUse(c) == c.Type = ContentTypeToolUse
        items == SelectSeq(SubSeq(content, i, Len(content)), isToolUse)
    IN  [k \in 1..Len(items) |-> ToolUse(items[k].ID, items[k].Name, items[k].Input)]

\* An extraction that returns the well-formed calls last first.
extractFrom_reversed(content, i) ==
    LET isCall(c) ==
            c.Type = ContentTypeToolUse /\ c.ID # "" /\ c.Name # "" /\ c.Input # NilInput
        items == SelectSeq(SubSeq(content, i, Len(content)), isCall)
    IN  [k \in 1..Len(items) |->
            ToolUse(items[Len(items) + 1 - k].ID, items[Len(items) + 1 - k].Name,
                    items[Len(items) + 1 - k].Input)]

RECURSIVE extractFrom(_, _)
\* The range loop of extractToolCalls from index i on.
extractFrom(content, i) ==
    IF i > Len(content)
    THEN <<>>
    ELSE LET c == content[i] IN
         IF c.Type = ContentTypeToolUse
         THEN IF c.ID = "" \/ c.Name = "" \/ c.Input = NilInput
              THEN extractFrom(content, i + 1)
              ELSE <<ToolUse(c.ID, c.Name, c.Input)>> \o extractFrom(content, i + 1)
         ELSE extractFrom(content, i + 1)

extractToolCalls(r) ==
    IF r.nil THEN <<>> ELSE extractFrom(r.Content, 1)

(***************************************************************************)
(* The environment: callers, the transport and the handlers                *)
(***************************************************************************)
ToolNames == {"get_weather", "search"}

\* The handler maps a caller passes: every tool, one tool, none.
HandlerMaps == {{"get_weather", "search"}, {"get_weather"}, {}}

\* What a handler returns on success.
HandlerOutput(name) == IF name = "get_weather" THEN "sunny" ELSE "results"

\* The error a failing handler returns.
HandlerFailure == "boom"

Messages == {"ping"}

DeclaredTools == Tools(<<Tool("get_weather"), Tool("search")>>)

BaseParams == MessageParams("claude", 1000, 0, 0, 0, "", NilTools, NilToolChoice)

\* The params the callers of the tool loop pass.
LoopParams ==
    { NilParams,
      BaseParams,
      [BaseParams EXCEPT !.Tools = DeclaredTools, !.ToolChoice = ToolChoice(ToolChoiceAuto, "")],
      [BaseParams EXCEPT !.Tools = DeclaredTools],
      [BaseParams EXCEPT !.Tools = DeclaredTools, !.ToolChoice = ToolChoice(ToolChoiceTool, "")],
      [BaseParams EXCEPT !.Tools = DeclaredTools, !.ToolChoice = ToolChoice("any", "")] }

\* The histories a client holds when a call starts.
InitialHistories ==
    { <<>>,
      <<Message(RoleUser, <<TextContent("earlier")>>),
        Message(RoleAssistant, <<TextContent("reply")>>)>> }

\* The content items the service emits: text, two well-formed tool calls and a
\* tool call without an id.
ItemPool ==
    { TextContent("hello"),
      ToolUseContent("toolu_1", "get_weather", "{}"),
      ToolUseContent("toolu_2", "search", "{}"),
      ToolUseContent("", "get_weather", "{}") }

Contents ==
    {<<>>} \cup {<<a>> : a \in ItemPool} \cup {<<a, b>> : a \in ItemPool, b \in ItemPool}

StopReasons ==
    {StopReasonToolUse, StopReasonEndTurn, StopReasonMaxTokens, StopReasonStopSequence}

Responses == {AnthropicResponse(c, s) : c \in Contents, s \in StopReasons}

LateResponses ==
    { AnthropicResponse(<<ToolUseContent("toolu_1", "get_weather", "{}")>>, StopReasonToolUse),
      AnthropicResponse(<<TextContent("hello")>>, StopReasonEndTurn) }

\* The responses the transport may give in iteration i.
TransportResponses(i) == IF i < MaxVaried THEN Responses ELSE LateResponses

\* Whether a handler may fail in iteration i.
HandlerOutcomes(i) == IF i < MaxVaried THEN {TRUE, FALSE} ELSE {FALSE}

\* The error sendRequest returns (a network failure, a cancelled context, ...).
TransportError == Errorf("error sending request: %w", 0, "", "transport", "")

(***************************************************************************)
(* ChatWithTools: the tool interaction loop                                *)
(***************************************************************************)
\* A loop without its circuit breaker.
IterationLimitReached_never(i) == FALSE

\* A circuit breaker that is one iteration late.
IterationLimitReached_late(i) == i > maxIterations

\* The loop's circuit breaker: if iterations >= maxIterations.
IterationLimitReached(i) == i >= maxIterations

\* The model follows a call for at most this many sendRequest calls, one more
\* than the loop can make.
SendCap == maxIterations + 1

\* An increment that counts every iteration twice.
NextIteration_twice(i) == i + 2

\* iterations++ at the end of an iteration.
NextIteration(i) == i + 1

\* A check that sends every response to the dispatch.
StopsLoop_never(r) == FALSE

\* if resp.StopReason != StopReasonToolUse: the response ends the call.
StopsLoop(r) == r.StopReason # StopReasonToolUse

\* A lookup that finds a handler for every name.
HandlerExists_always(h, name) == TRUE

\* handler, exists := handlers[call.Name]
HandlerExists(h, name) == name \in h

\* A result that carries the tool's name where the call's id belongs.
ToolResult_wrongId(call, failed) ==
    MessageContent(ContentTypeToolResult, "", "", "", NilInput, call.Name,
                   IF failed THEN "Error executing tool: " \o HandlerFailure
                             ELSE HandlerOutput(call.Name),
                   failed)

\* A result that loses the error flag.
ToolResult_noflag(call, failed) ==
    MessageContent(ContentTypeToolResult, "", "", "", NilInput, call.ID,
                   IF failed THEN "Error executing tool: " \o HandlerFailure
                             ELSE HandlerOutput(call.Name),
                   FALSE)

\* The tool_result item for a call whose handler failed (failed) or returned.
ToolResult(call, failed) ==
    IF failed
    THEN MessageContent(ContentTypeToolResult, "", "", "", NilInput, call.ID,
                        "Error executing tool: " \o HandlerFailure, TRUE)
    ELSE MessageContent(ContentTypeToolResult, "", "", "", NilInput, call.ID,
                        HandlerOutput(call.Name), FALSE)

\* Results collected newest first.
CollectResult_front(results, item) == <<item>> \o results

\* resultContents = append(resultContents, ...)
CollectResult(results, item) == Append(results, item)

\* A request that gives up the tool choice once tool results are in the
\* history.
LoopRequest_dropsChoice(p, conv) ==
    Request(p.Model, p.System, conv, p.MaxTokens, p.Temperature, p.TopP, p.TopK, p.Tools,
            IF conv[Len(conv)].Content[1].Type = ContentTypeToolResult
            THEN NilToolChoice
            ELSE p.ToolChoice)

\* The request built at the top of an iteration.
LoopRequest(p, conv) ==
    Request(p.Model, p.System, conv, p.MaxTokens, p.Temperature, p.TopP, p.TopK,
            p.Tools, p.ToolChoice)

\* The user turn appended without regard to the outcome of validation.
AppendUserTurn_unvalidated(conv, message, err) ==
    addMessageToConversation(conv, RoleUser, <<TextContent(message)>>)

\* The history after the entry of ChatWithTools: the validation error is
\* returned before addMessageToConversation is reached, so the user turn is
\* appended only when validation found no error.
AppendUserTurn(conv, message, err) ==
    IF err # NilErr
    THEN conv
    ELSE addMessageToConversation(conv, RoleUser, <<TextContent(message)>>)

\* Entry: validation, then the user turn.
ChatWithTools(message, p, h) ==
    /\ pc = "idle"
    /\ params' = p
    /\ handlers' = h
    /\ before' = conversation
    /\ IF p.nil
       THEN \* validateToolParams dereferences params
            /\ ret' = Panic
            /\ pc' = "done"
            /\ UNCHANGED conversation
       ELSE IF validateToolParams(p) # NilErr
       THEN /\ ret' = Return(NilResponse,
                             Wrap("invalid tool parameters: %w", 0, validateToolParams(p)))
            /\ pc' = "done"
            /\ conversation' = AppendUserTurn(conversation, message, validateToolParams(p))
       ELSE /\ conversation' = AppendUserTurn(conversation, message, validateToolParams(p))
            /\ pc' = "loop"
            /\ UNCHANGED ret
    /\ UNCHANGED <<maxConvLength, defaultParams, systemPrompt, iterations, reqBody, resp,
                   toolCalls, callIdx, resultContents, sends, rounds, respLog, callLog,
                   lastOp, ctxDone,
                   extraVars>>

\* Top of an iteration with the limit reached.
IterationLimit ==
    /\ pc = "loop"
    /\ IterationLimitReached(iterations)
    /\ ret' = Return(NilResponse,
                     Errorf("exceeded maximum number of tool call iterations (%d)",
                            maxIterations, "", "", ""))
    /\ pc' = "done"
    /\ UNCHANGED <<conversation, maxConvLength, defaultParams, systemPrompt, params,
                   handlers, iterations, reqBody, resp, toolCalls, callIdx,
                   resultContents, sends, rounds, respLog, callLog, before, lastOp,
                   ctxDone, extraVars>>

\* Top of an iteration: the request is built and handed to sendRequest.
SendRequest ==
    /\ pc = "loop"
    /\ ~IterationLimitReached(iterations)
    /\ sends < SendCap
    /\ reqBody' = LoopRequest(params, conversation)
    /\ sends' = sends + 1
    /\ pc' = "sending"
    /\ UNCHANGED <<conversation, maxConvLength, defaultParams, systemPrompt, params,
                   handlers, iterations, resp, toolCalls, callIdx, resultContents, ret,
                   rounds, respLog, callLog, before, lastOp, ctxDone,
                   extraVars>>

\* sendRequest returns an error.
RequestFails ==
    /\ pc = "sending"
    /\ ret' = Return(NilResponse,
                     Wrap("chat request error (iteration %d): %w", iterations, TransportError))
    /\ pc' = "done"
    /\ UNCHANGED <<conversation, maxConvLength, defaultParams, systemPrompt, params,
                   handlers, iterations, reqBody, resp, toolCalls, callIdx,
                   resultContents, sends, rounds, respLog, callLog, before, lastOp,
                   ctxDone, extraVars>>

\* sendRequest returns response r, which it does not with a cancelled context:
\* the assistant turn, the stop-reason check and the extraction.
ReceiveResponse(r) ==
    /\ pc = "sending"
    /\ ~ctxDone
    /\ resp' = r
    /\ respLog' = Append(respLog, r)
    /\ conversation' = addMessageToConversation(conversation, RoleAssistant, r.Content)
    /\ IF StopsLoop(r)
       THEN /\ ret' = Return(r, NilErr)
            /\ pc' = "done"
            /\ UNCHANGED <<toolCalls, callIdx, resultContents, callLog>>
       ELSE /\ toolCalls' = extractToolCalls(r)
            /\ callIdx' = 1
            /\ resultContents' = <<>>
            /\ callLog' = <<>>
            /\ IF Len(extractToolCalls(r)) = 0
               THEN /\ ret' = Return(NilResponse,
                            Errorf("received tool_use stop reason but no valid tool calls found",
                                   0, "", "", ""))
                    /\ pc' = "done"
               ELSE /\ pc' = "dispatch"
                    /\ UNCHANGED ret
    /\ UNCHANGED <<maxConvLength, defaultParams, systemPrompt, params, handlers,
                   iterations, reqBody, sends, rounds, before, lastOp, ctxDone,
                   extraVars>>

\* A range loop that walks the calls last first.
CurrentCall_reversed(calls, idx) == calls[Len(calls) + 1 - idx]

\* for _, call := range toolCalls: the call the range loop has reached.
CurrentCall(calls, idx) == calls[idx]

\* A range loop taken to be over after every call.
RangeDone_early(calls, idx) == TRUE

\* The call at idx is the last one of the range loop.
RangeDone(calls, idx) == idx >= Len(calls)

\* The range loop reaches a call whose tool has no handler.
NoHandler ==
    /\ pc = "dispatch"
    /\ ~HandlerExists(handlers, CurrentCall(toolCalls, callIdx).Name)
    /\ ret' = Return(NilResponse,
                     Errorf("no handler for tool: %s", 0,
                            CurrentCall(toolCalls, callIdx).Name, "", ""))
    /\ pc' = "done"
    /\ UNCHANGED <<conversation, maxConvLength, defaultParams, systemPrompt, params,
                   handlers, iterations, reqBody, resp, toolCalls, callIdx,
                   resultContents, sends, rounds, respLog, callLog, before, lastOp,
                   ctxDone, extraVars>>

\* The range loop runs the handler of the current call, which fails or returns;
\* after the last call the result turn is appended and the iteration ends.
RunHandler(failed) ==
    /\ pc = "dispatch"
    /\ HandlerExists(handlers, CurrentCall(toolCalls, callIdx).Name)
    /\ callLog' = Append(callLog, [ID |-> CurrentCall(toolCalls, callIdx).ID,
                                   Name |-> CurrentCall(toolCalls, callIdx).Name,
                                   failed |-> failed,
                                   cancelled |-> ctxDone])
    /\ resultContents' =
           CollectResult(resultContents, ToolResult(CurrentCall(toolCalls, callIdx), failed))
    /\ IF ~RangeDone(toolCalls, callIdx)
       THEN /\ callIdx' = callIdx + 1
            /\ UNCHANGED <<conversation, iterations, rounds, pc>>
       ELSE /\ callIdx' = callIdx + 1
            /\ conversation' =
                   addMessageToConversation(conversation, RoleUser, resultContents')
            /\ iterations' = NextIteration(iterations)
            /\ rounds' = rounds + 1
            /\ pc' = "loop"
    /\ UNCHANGED <<maxConvLength, defaultParams, systemPrompt, params, handlers,
                   reqBody, resp, toolCalls, ret, sends, respLog, before, lastOp, ctxDone,
                   extraVars>>

\* No call runs beside the one followed, the tool manager is new and no option
\* has been applied.
NoExtras ==
    /\ invocations = <<>>
    /\ overlapped = FALSE
    /\ manager = NewToolManager
    /\ lastArg = 0
    /\ debug = NoDebug

\* No call is running.
NoCall ==
    /\ pc = "idle"
    /\ params = ZeroParams
    /\ handlers = {}
    /\ iterations = 0
    /\ reqBody = NoRequest
    /\ resp = NilResponse
    /\ toolCalls = <<>>
    /\ callIdx = 1
    /\ resultContents = <<>>
    /\ ret = NoRet
    /\ sends = 0
    /\ rounds = 0
    /\ respLog = <<>>
    /\ callLog = <<>>
    /\ before = <<>>
    /\ lastOp = "none"
    /\ ctxDone = FALSE

\* A client as NewClient leaves it, holding one of the initial histories.
Init ==
    /\ conversation \in InitialHistories
    /\ maxConvLength = 0
    /\ defaultParams = ZeroParams
    /\ systemPrompt = ""
    /\ NoCall
    /\ NoExtras

Next ==
    \/ \E m \in Messages, p \in LoopParams, h \in HandlerMaps : ChatWithTools(m, p, h)
    \/ IterationLimit
    \/ SendRequest
    \/ RequestFails
    \/ \E r \in TransportResponses(iterations) : ReceiveResponse(r)
    \/ NoHandler
    \/ \E failed \in HandlerOutcomes(iterations) : RunHandler(failed)

Spec == Init /\ [][Next]_vars

\* The transport and the handlers return: no step of a call waits forever.
FairSpec == Spec /\ WF_vars(Next)

(***************************************************************************)
(* ChatWithTools of goanthropic.go: one request, no dispatch               *)
(***************************************************************************)
\* finalParams: the defaults with the non-zero fields of the override.
MergeParams(def, p) ==
    IF p.nil
    THEN def
    ELSE [def EXCEPT
            !.Model = IF p.Model # "" THEN p.Model ELSE @,
            !.MaxTokens = IF p.MaxTokens # 0 THEN p.MaxTokens ELSE @,
            !.Temperature = IF p.Temperature # 0 THEN p.Temperature ELSE @,
            !.TopP = IF p.TopP # 0 THEN p.TopP ELSE @,
            !.TopK = IF p.TopK # 0 THEN p.TopK ELSE @,
            !.Tools = IF ~p.Tools.nil THEN p.Tools ELSE @,
            !.ToolChoice = IF ~p.ToolChoice.nil THEN p.ToolChoice ELSE @]

\* The request of goanthropic.go's ChatWithTools.
ClientRequest(p, system, conv) ==
    Request(p.Model, system, conv, p.MaxTokens, p.Temperature, p.TopP, p.TopK,
            p.Tools, p.ToolChoice)

\* A merge made in c.defaultParams itself, as through a pointer to it.
DefaultsAfterCall_aliased(def, p) == MergeParams(def, p)

\* finalParams := c.defaultParams copies the struct: c.defaultParams after the
\* merge into finalParams is what it was.
DefaultsAfterCall(def, p) == def

\* finalParams of ChatMe: the defaults with the non-zero Model, MaxTokens,
\* Temperature, TopP and TopK of the override.
MergeChatParams(def, p) ==
    IF p.nil
    THEN def
    ELSE [def EXCEPT
            !.Model = IF p.Model # "" THEN p.Model ELSE @,
            !.MaxTokens = IF p.MaxTokens # 0 THEN p.MaxTokens ELSE @,
            !.Temperature = IF p.Temperature # 0 THEN p.Temperature ELSE @,
            !.TopP = IF p.TopP # 0 THEN p.TopP ELSE @,
            !.TopK = IF p.TopK # 0 THEN p.TopK ELSE @]

\* The request of ChatMe: no tools, no tool choice.
ChatMeRequest(p, system, conv) ==
    Request(p.Model, system, conv, p.MaxTokens, p.Temperature, p.TopP, p.TopK,
            NilTools, NilToolChoice)

\* ChatMe up to sendRequest: merge, the user turn, trim, and the request is
\* handed to sendRequest; what follows is as in ChatWithTools.
ChatMe(message, p) ==
    /\ pc = "idle"
    /\ params' = MergeChatParams(defaultParams, p)
    /\ defaultParams' = DefaultsAfterCall(defaultParams, p)
    /\ before' = conversation
    /\ conversation' =
           trimConversationHistory(
               addMessageToConversation(conversation, RoleUser, <<TextContent(message)>>),
               maxConvLength)
    /\ reqBody' = ChatMeRequest(params', systemPrompt, conversation')
    /\ sends' = sends + 1
    /\ pc' = "client_sending"
    /\ UNCHANGED <<maxConvLength, systemPrompt, handlers, iterations, resp, toolCalls,
                   callIdx, resultContents, ret, rounds, respLog, callLog, lastOp, ctxDone,
                   extraVars>>

\* Entry: merge, validation, the user turn, trim, and the request is handed to
\* sendRequest.
ClientChatWithTools(message, p) ==
    /\ pc = "idle"
    /\ params' = MergeParams(defaultParams, p)
    /\ defaultParams' = DefaultsAfterCall(defaultParams, p)
    /\ before' = conversation
    /\ IF validateToolParamsClient(params') # NilErr
       THEN /\ ret' = Return(NilResponse,
                             Wrap("invalid parameters: %w", 0, validateToolParamsClient(params')))
            /\ pc' = "done"
            /\ conversation' =
                   AppendUserTurn(conversation, message, validateToolParamsClient(params'))
            /\ UNCHANGED <<reqBody, sends>>
       ELSE /\ conversation' =
                   trimConversationHistory(
                       AppendUserTurn(conversation, message, validateToolParamsClient(params')),
                       maxConvLength)
            /\ reqBody' = ClientRequest(params', systemPrompt, conversation')
            /\ sends' = sends + 1
            /\ pc' = "client_sending"
            /\ UNCHANGED ret
    /\ UNCHANGED <<maxConvLength, systemPrompt, handlers, iterations, resp,
                   toolCalls, callIdx, resultContents, rounds, respLog, callLog, lastOp,
                   ctxDone, extraVars>>

\* sendRequest returns an error, which is returned as it is.
ClientRequestFails ==
    /\ pc = "client_sending"
    /\ ret' = Return(NilResponse, TransportError)
    /\ pc' = "done"
    /\ UNCHANGED <<conversation, maxConvLength, defaultParams, systemPrompt, params,
                   handlers, iterations, reqBody, resp, toolCalls, callIdx,
                   resultContents, sends, rounds, respLog, callLog, before, lastOp,
                   ctxDone, extraVars>>

\* sendRequest returns response r: a non-empty content is appended as the
\* assistant turn and the history trimmed; r is returned.
ClientReceiveResponse(r) ==
    /\ pc = "client_sending"
    /\ ~ctxDone
    /\ resp' = r
    /\ respLog' = Append(respLog, r)
    /\ conversation' =
           IF Len(r.Content) > 0
           THEN trimConversationHistory(
                    addMessageToConversation(conversation, RoleAssistant, r.Content),
                    maxConvLength)
           ELSE conversation
    /\ ret' = Return(r, NilErr)
    /\ pc' = "done"
    /\ UNCHANGED <<maxConvLength, defaultParams, systemPrompt, params, handlers,
                   iterations, reqBody, toolCalls, callIdx, resultContents, sends, rounds,
                   callLog, before, lastOp, ctxDone,
                   extraVars>>

\* The defaults a client is built with (WithDefaultParams).
ClientDefaults ==
    { ZeroParams,
      [BaseParams EXCEPT !.Tools = DeclaredTools, !.ToolChoice = ToolChoice(ToolChoiceAuto, "")] }

\* The overrides the callers of goanthropic.go's ChatWithTools pass.
ClientParams ==
    { NilParams,
      ZeroParams,
      [ZeroParams EXCEPT !.Tools = DeclaredTools, !.ToolChoice = ToolChoice(ToolChoiceAuto, "")],
      [ZeroParams EXCEPT !.Tools = DeclaredTools, !.ToolChoice = ToolChoice(ToolChoiceTool, "")],
      [ZeroParams EXCEPT !.Tools = DeclaredTools, !.ToolChoice = ToolChoice("any", "")],
      [ZeroParams EXCEPT !.Tools = DeclaredTools] }

InitClient ==
    /\ conversation \in InitialHistories
    /\ maxConvLength \in {WithMaxConversationLength(0, length) : length \in 0..MaxConvLen}
    /\ defaultParams \in ClientDefaults
    /\ systemPrompt = ""
    /\ NoCall
    /\ NoExtras

NextClient ==
    \/ \E m \in Messages, p \in ClientParams : ClientChatWithTools(m, p)
    \/ ClientRequestFails
    \/ \E r \in Responses : ClientReceiveResponse(r)

SpecClient == InitClient /\ [][NextClient]_vars

(***************************************************************************)
(* ChatWithTools and ChatMe of goanthropic.go                              *)
(***************************************************************************)
\* A call has returned: the client is ready for the next call, with the history,
\* the bound and the defaults the call left. Followed while the history is
\* short, after a failed call or one of the plain responses.
NextCall ==
    /\ pc = "done"
    /\ Len(conversation) < MaxHist
    /\ resp.nil \/ resp \in LateResponses
    /\ pc' = "idle"
    /\ params' = ZeroParams
    /\ handlers' = {}
    /\ iterations' = 0
    /\ reqBody' = NoRequest
    /\ resp' = NilResponse
    /\ toolCalls' = <<>>
    /\ callIdx' = 1
    /\ resultContents' = <<>>
    /\ ret' = NoRet
    /\ sends' = 0
    /\ rounds' = 0
    /\ respLog' = <<>>
    /\ callLog' = <<>>
    /\ before' = <<>>
    /\ lastOp' = "none"
    /\ ctxDone' = FALSE
    /\ UNCHANGED <<conversation, maxConvLength, defaultParams, systemPrompt, extraVars>>

\* The overrides the callers of ChatMe pass.
ChatParams == {NilParams, ZeroParams, BaseParams}

NextChat ==
    \/ NextClient
    \/ \E m \in Messages, p \in ChatParams : ChatMe(m, p)
    \/ NextCall

SpecChat == InitClient /\ [][NextChat]_vars

(***************************************************************************)
(* The tool loop on a client built with options                            *)
(***************************************************************************)
\* A client built with WithMaxConversationLength(length), length positive, and
\* WithDefaultParams, its history still empty.
InitConfigured ==
    /\ conversation = <<>>
    /\ maxConvLength \in {WithMaxConversationLength(0, length) : length \in 1..MaxConvLen}
    /\ defaultParams \in ClientDefaults
    /\ systemPrompt = ""
    /\ NoCall
    /\ NoExtras

SpecConfigured == InitConfigured /\ [][Next]_vars

(***************************************************************************)
(* The tool loop called with a system prompt in the params                 *)
(***************************************************************************)
\* Per-call params with the System field set.
SystemParams ==
    { [BaseParams EXCEPT !.System = "be brief"],
      [BaseParams EXCEPT !.System = "be brief",
                         !.Tools = DeclaredTools,
                         !.ToolChoice = ToolChoice(ToolChoiceAuto, "")] }

NextSystem ==
    \/ \E m \in Messages, p \in SystemParams, h \in HandlerMaps : ChatWithTools(m, p, h)
    \/ Next

SpecSystem == Init /\ [][NextSystem]_vars

(***************************************************************************)
(* Both ChatWithTools methods                                              *)
(***************************************************************************)
\* The tool loop is followed on the clients of Init, the single-request method
\* on the clients of InitClient.
NextBoth ==
    \/ maxConvLength = 0 /\ defaultParams = ZeroParams /\ Next
    \/ NextClient

SpecBoth == InitClient /\ [][NextBoth]_vars

(***************************************************************************)
(* The tool loop under a context that may be cancelled                     *)
(***************************************************************************)
\* The caller cancels ctx while sendRequest or a handler is running.
Cancel ==
    /\ pc \in {"sending", "dispatch"}
    /\ ~ctxDone
    /\ ctxDone' = TRUE
    /\ UNCHANGED <<conversation, maxConvLength, defaultParams, systemPrompt, pc, params,
                   handlers, iterations, reqBody, resp, toolCalls, callIdx,
                   resultContents, ret, sends, rounds, respLog, callLog, before, lastOp,
                   extraVars>>

\* A handler that watches ctx returns ctx.Err() once the context is cancelled:
\* the loop receives it as the handler's error.
HandlerCancelled == ctxDone /\ RunHandler(TRUE)

NextCancel ==
    \/ Next
    \/ Cancel
    \/ HandlerCancelled

SpecCancel == Init /\ [][NextCancel]_vars

(***************************************************************************)
(* Calls running side by side on one client                                *)
(***************************************************************************)
\* The number of goroutines calling ChatWithTools on the client.
MaxCalls == 2

\* The message of call i, and the response the service gives to its request.
CallMessage(i) == "ping " \o ToString(i)
CallReply(i) == AnthropicResponse(<<TextContent("reply " \o ToString(i))>>, StopReasonEndTurn)

\* A call: its position, the slice its running append has read, its request
\* and what it returned.
Invocation(position, local, request, returned) ==
    [pc |-> position, local |-> local, reqBody |-> request, ret |-> returned]

Running(i) == invocations[i].pc \notin {"idle", "done"}

\* Goroutine i calls ChatWithTools with valid params.
CallStarts(i) ==
    /\ invocations[i].pc = "idle"
    /\ invocations' = [invocations EXCEPT ![i].pc = "read_user"]
    /\ overlapped' = (overlapped \/ \E j \in DOMAIN invocations : j # i /\ Running(j))
    /\ UNCHANGED <<conversation, maxConvLength, defaultParams, systemPrompt, pc, params,
                   handlers, iterations, reqBody, resp, toolCalls, callIdx,
                   resultContents, ret, sends, rounds, respLog, callLog, before, lastOp,
                   ctxDone, manager, lastArg, debug>>

\* c.conversation = append(c.conversation, ...) is a read and a write with no
\* lock around them: the read.
AppendReads(i) ==
    /\ invocations[i].pc \in {"read_user", "read_assistant"}
    /\ invocations' =
           [invocations EXCEPT ![i].local = conversation,
                               ![i].pc = IF @ = "read_user" THEN "write_user"
                                                            ELSE "write_assistant"]
    /\ UNCHANGED <<conversation, maxConvLength, defaultParams, systemPrompt, pc, params,
                   handlers, iterations, reqBody, resp, toolCalls, callIdx,
                   resultContents, ret, sends, rounds, respLog, callLog, before, lastOp,
                   ctxDone, overlapped, manager, lastArg, debug>>

\* The write of the append, to the slice that was read. After the assistant
\* turn the call returns its response, whose stop reason is end_turn.
AppendWrites(i) ==
    /\ invocations[i].pc \in {"write_user", "write_assistant"}
    /\ IF invocations[i].pc = "write_user"
       THEN /\ conversation' =
                   addMessageToConversation(invocations[i].local, RoleUser,
                                            <<TextContent(CallMessage(i))>>)
            /\ invocations' = [invocations EXCEPT ![i].pc = "build"]
       ELSE /\ conversation' =
                   addMessageToConversation(invocations[i].local, RoleAssistant,
                                            CallReply(i).Content)
            /\ invocations' = [invocations EXCEPT ![i].pc = "done",
                                                  ![i].ret = Return(CallReply(i), NilErr)]
    /\ UNCHANGED <<maxConvLength, defaultParams, systemPrompt, pc, params, handlers,
                   iterations, reqBody, resp, toolCalls, callIdx, resultContents, ret,
                   sends, rounds, respLog, callLog, before, lastOp, ctxDone, overlapped,
                   manager, lastArg, debug>>

\* The request is built from the history as it is now and handed to
\* sendRequest.
BuildsRequest(i) ==
    /\ invocations[i].pc = "build"
    /\ invocations' = [invocations EXCEPT ![i].reqBody = LoopRequest(BaseParams, conversation),
                                          ![i].pc = "sending"]
    /\ UNCHANGED <<conversation, maxConvLength, defaultParams, systemPrompt, pc, params,
                   handlers, iterations, reqBody, resp, toolCalls, callIdx,
                   resultContents, ret, sends, rounds, respLog, callLog, before, lastOp,
                   ctxDone, overlapped, manager, lastArg, debug>>

\* sendRequest returns the response.
CallReceives(i) ==
    /\ invocations[i].pc = "sending"
    /\ invocations' = [invocations EXCEPT ![i].pc = "read_assistant"]
    /\ UNCHANGED <<conversation, maxConvLength, defaultParams, systemPrompt, pc, params,
                   handlers, iterations, reqBody, resp, toolCalls, callIdx,
                   resultContents, ret, sends, rounds, respLog, callLog, before, lastOp,
                   ctxDone, overlapped, manager, lastArg, debug>>

\* sendRequest returns an error and the call returns it wrapped.
CallFails(i) ==
    /\ invocations[i].pc = "sending"
    /\ invocations' =
           [invocations EXCEPT
               ![i].pc = "done",
               ![i].ret = Return(NilResponse,
                                 Wrap("chat request error (iteration %d): %w", 0,
                                      TransportError))]
    /\ UNCHANGED <<conversation, maxConvLength, defaultParams, systemPrompt, pc, params,
                   handlers, iterations, reqBody, resp, toolCalls, callIdx,
                   resultContents, ret, sends, rounds, respLog, callLog, before, lastOp,
                   ctxDone, overlapped, manager, lastArg, debug>>

\* MaxCalls goroutines hold the client, none has called yet.
InitConcurrent ==
    /\ conversation \in InitialHistories
    /\ maxConvLength = 0
    /\ defaultParams = ZeroParams
    /\ systemPrompt = ""
    /\ NoCall
    /\ invocations = [i \in 1..MaxCalls |-> Invocation("idle", <<>>, NoRequest, NoRet)]
    /\ overlapped = FALSE
    /\ manager = NewToolManager
    /\ lastArg = 0
    /\ debug = NoDebug

NextConcurrent ==
    \E i \in 1..MaxCalls :
        \/ CallStarts(i)
        \/ AppendReads(i)
        \/ AppendWrites(i)
        \/ BuildsRequest(i)
        \/ CallReceives(i)
        \/ CallFails(i)

SpecConcurrent == InitConcurrent /\ [][NextConcurrent]_vars

(***************************************************************************)
(* A tool manager under AddTool and AddTools                               *)
(***************************************************************************)
\* The most tools a manager is followed to.
MaxTools == 4

\* The handler maps handed to AddTools: any of the tools may be absent, or
\* present with a nil function.
HandlerArguments ==
    UNION {[names -> {HandlerFunc, NilHandler}] : names \in SUBSET ToolNames}

\* The tool lists handed to AddTools.
ToolArguments ==
    {<<>>} \cup {<<a>> : a \in ToolNames} \cup {<<a, b>> : a \in ToolNames, b \in ToolNames}

\* tm.AddTool(tool, handler)
CallAddTool(tool, handler) ==
    /\ Len(manager.tools) < MaxTools
    /\ manager' = AddTool(manager, tool, handler).tm
    /\ ret' = Return(NilResponse, AddTool(manager, tool, handler).err)
    /\ lastOp' = "AddTool"
    /\ UNCHANGED <<conversation, maxConvLength, defaultParams, systemPrompt, pc, params,
                   handlers, iterations, reqBody, resp, toolCalls, callIdx,
                   resultContents, sends, rounds, respLog, callLog, before, ctxDone,
                   invocations, overlapped, lastArg, debug>>

\* tm.AddTools(tools, handlerMap)
CallAddTools(tools, handlerMap) ==
    /\ Len(manager.tools) + Len(tools) <= MaxTools
    /\ manager' = AddTools(manager, tools, handlerMap).tm
    /\ ret' = Return(NilResponse, AddTools(manager, tools, handlerMap).err)
    /\ lastOp' = "AddTools"
    /\ UNCHANGED <<conversation, maxConvLength, defaultParams, systemPrompt, pc, params,
                   handlers, iterations, reqBody, resp, toolCalls, callIdx,
                   resultContents, sends, rounds, respLog, callLog, before, ctxDone,
                   invocations, overlapped, lastArg, debug>>

\* A manager as NewToolManager leaves it.
InitManager ==
    /\ conversation = <<>>
    /\ maxConvLength = 0
    /\ defaultParams = ZeroParams
    /\ systemPrompt = ""
    /\ NoCall
    /\ NoExtras

NextManager ==
    \/ \E tool \in ToolNames, handler \in {HandlerFunc, NilHandler} : CallAddTool(tool, handler)
    \/ \E tools \in ToolArguments, handlerMap \in HandlerArguments :
           CallAddTools(tools, handlerMap)

SpecManager == InitManager /\ [][NextManager]_vars

(***************************************************************************)
(* The validators applied to every parameter set                           *)
(***************************************************************************)
ToolLists ==
    { NilTools, Tools(<<>>), Tools(<<Tool("get_weather")>>), DeclaredTools }

ToolChoices ==
    {NilToolChoice} \cup
    { ToolChoice(t, n) : t \in {ToolChoiceAuto, ToolChoiceNone, ToolChoiceTool, "any", ""},
                         n \in {"", "get_weather"} }

AllToolParams ==
    {NilParams} \cup
    { [BaseParams EXCEPT !.Tools = t, !.ToolChoice = c] : t \in ToolLists, c \in ToolChoices }

\* validateToolParams of the tool loop is called.
ValidateLoop ==
    /\ pc = "idle"
    /\ ret' = IF params.nil THEN Panic ELSE Return(NilResponse, validateToolParams(params))
    /\ pc' = "validated"
    /\ UNCHANGED <<conversation, maxConvLength, defaultParams, systemPrompt, params,
                   handlers, iterations, reqBody, resp, toolCalls, callIdx,
                   resultContents, sends, rounds, respLog, callLog, before, lastOp,
                   ctxDone, extraVars>>

\* validateToolParams of goanthropic.go is called.
ValidateClient ==
    /\ pc = "idle"
    /\ ret' = Return(NilResponse, validateToolParamsClient(params))
    /\ pc' = "validated_client"
    /\ UNCHANGED <<conversation, maxConvLength, defaultParams, systemPrompt, params,
                   handlers, iterations, reqBody, resp, toolCalls, callIdx,
                   resultContents, sends, rounds, respLog, callLog, before, lastOp,
                   ctxDone, extraVars>>

InitValidate ==
    /\ conversation = <<>>
    /\ maxConvLength = 0
    /\ defaultParams = ZeroParams
    /\ systemPrompt = ""
    /\ pc = "idle"
    /\ params \in AllToolParams
    /\ handlers = {}
    /\ iterations = 0
    /\ reqBody = NoRequest
    /\ resp = NilResponse
    /\ toolCalls = <<>>
    /\ callIdx = 1
    /\ resultContents = <<>>
    /\ ret = NoRet
    /\ sends = 0
    /\ rounds = 0
    /\ respLog = <<>>
    /\ callLog = <<>>
    /\ before = <<>>
    /\ lastOp = "none"
    /\ ctxDone = FALSE
    /\ NoExtras

NextValidate ==
    \/ ValidateLoop
    \/ ValidateClient

SpecValidate == InitValidate /\ [][NextValidate]_vars

(***************************************************************************)
(* extractToolCalls applied to every response                              *)
(***************************************************************************)
\* The longest content of a response handed to extractToolCalls.
MaxItems == 3

\* Content items: text, two well-formed tool calls, and tool calls without an
\* id, without a name and without an input.
ExtractItems ==
    { TextContent("hello"),
      ToolUseContent("toolu_1", "get_weather", "{}"),
      ToolUseContent("toolu_2", "search", "{}"),
      ToolUseContent("", "get_weather", "{}"),
      ToolUseContent("toolu_3", "", "{}"),
      ToolUseContent("toolu_4", "search", NilInput) }

\* The responses handed to extractToolCalls: nil, and every content of up to
\* MaxItems items.
ExtractInputs ==
    {NilResponse} \cup
    { AnthropicResponse(c, StopReasonToolUse) :
          c \in UNION {[1..n -> ExtractItems] : n \in 0..MaxItems} }

\* extractToolCalls(resp) is called.
Extract ==
    /\ pc = "idle"
    /\ toolCalls' = extractToolCalls(resp)
    /\ pc' = "extracted"
    /\ UNCHANGED <<conversation, maxConvLength, defaultParams, systemPrompt, params,
                   handlers, iterations, reqBody, resp, callIdx, resultContents, ret,
                   sends, rounds, respLog, callLog, before, lastOp, ctxDone,
                   extraVars>>

InitExtract ==
    /\ conversation = <<>>
    /\ maxConvLength = 0
    /\ defaultParams = ZeroParams
    /\ systemPrompt = ""
    /\ pc = "idle"
    /\ params = ZeroParams
    /\ handlers = {}
    /\ iterations = 0
    /\ reqBody = NoRequest
    /\ resp \in ExtractInputs
    /\ toolCalls = <<>>
    /\ callIdx = 1
    /\ resultContents = <<>>
    /\ ret = NoRet
    /\ sends = 0
    /\ rounds = 0
    /\ respLog = <<>>
    /\ callLog = <<>>
    /\ before = <<>>
    /\ lastOp = "none"
    /\ ctxDone = FALSE
    /\ NoExtras

NextExtract == Extract

SpecExtract == InitExtract /\ [][NextExtract]_vars

(***************************************************************************)
(* The conversation store under arbitrary appends and trims                *)
(***************************************************************************)
\* The turns appended: both roles, contents of one and of two items.
StoreContents ==
    { <<TextContent("hello")>>,
      <<TextContent("hello"), ToolUseContent("toolu_1", "get_weather", "{}")>> }

\* c.addMessageToConversation(role, content)
StoreAppend(role, content) ==
    /\ Len(conversation) < MaxHist
    /\ before' = conversation
    /\ lastOp' = "append"
    /\ conversation' = addMessageToConversation(conversation, role, content)
    /\ UNCHANGED <<maxConvLength, defaultParams, systemPrompt, pc, params, handlers,
                   iterations, reqBody, resp, toolCalls, callIdx, resultContents, ret,
                   sends, rounds, respLog, callLog, ctxDone,
                   extraVars>>

\* c.trimConversationHistory()
StoreTrim ==
    /\ before' = conversation
    /\ lastOp' = "trim"
    /\ conversation' = trimConversationHistory(conversation, maxConvLength)
    /\ UNCHANGED <<maxConvLength, defaultParams, systemPrompt, pc, params, handlers,
                   iterations, reqBody, resp, toolCalls, callIdx, resultContents, ret,
                   sends, rounds, respLog, callLog, ctxDone,
                   extraVars>>

\* A new client, built with or without WithMaxConversationLength.
InitStore ==
    /\ conversation = <<>>
    /\ maxConvLength \in {WithMaxConversationLength(0, length) : length \in -1..MaxConvLen}
    /\ defaultParams = ZeroParams
    /\ systemPrompt = ""
    /\ NoCall
    /\ NoExtras

NextStore ==
    \/ \E role \in {RoleUser, RoleAssistant}, content \in StoreContents :
           StoreAppend(role, content)
    \/ StoreTrim

SpecStore == InitStore /\ [][NextStore]_vars

(***************************************************************************)
(* The conversation store of a client built with any options               *)
(***************************************************************************)
\* NewClient applies WithMaxConversationLength(length), one option after the
\* other, before the client is used.
ApplyOption(length) ==
    /\ lastOp \in {"none", "option"}
    /\ maxConvLength' = WithMaxConversationLength(maxConvLength, length)
    /\ lastArg' = length
    /\ lastOp' = "option"
    /\ UNCHANGED <<conversation, defaultParams, systemPrompt, pc, params, handlers,
                   iterations, reqBody, resp, toolCalls, callIdx, resultContents, ret,
                   sends, rounds, respLog, callLog, before, ctxDone, invocations,
                   overlapped, manager, debug>>

\* The client as NewClient has it before the options are applied.
InitOptions ==
    /\ conversation = <<>>
    /\ maxConvLength = 0
    /\ defaultParams = ZeroParams
    /\ systemPrompt = ""
    /\ NoCall
    /\ NoExtras

NextOptions ==
    \/ \E length \in -1..MaxConvLen : ApplyOption(length)
    \/ \E role \in {RoleUser, RoleAssistant}, content \in StoreContents :
           StoreAppend(role, content)
    \/ StoreTrim

SpecOptions == InitOptions /\ [][NextOptions]_vars

(***************************************************************************)
(* Properties of the tool interaction loop                                 *)
(***************************************************************************)
ErrConfiguration == "invalid tool parameters: %w"
ErrTransport == "chat request error (iteration %d): %w"
ErrProtocol == "received tool_use stop reason but no valid tool calls found"
ErrDispatch == "no handler for tool: %s"
ErrIterationLimit == "exceeded maximum number of tool call iterations (%d)"

\* The call returned a response and no error.
Succeeded == ret.returned /\ ret.err = NilErr

\* The call returned the error made by format.
FailedWith(format) == ret.returned /\ ret.resp.nil /\ ret.err.fmt = format

\* A well-formed tool invocation item.
IsValidInvocation(c) ==
    c.Type = ContentTypeToolUse /\ c.ID # "" /\ c.Name # "" /\ c.Input # NilInput

\* The well-formed tool invocations of response r, in emission order.
ValidInvocations(r) == SelectSeq(r.Content, IsValidInvocation)

\* Positions of the current iteration's calls whose tool has no handler.
Unhandled == {i \in 1..Len(toolCalls) : toolCalls[i].Name \notin handlers}

FirstUnhandled == CHOOSE i \in Unhandled : \A j \in Unhandled : i <= j

OnlyHandledToolUse ==
    \A i \in 1..Len(respLog) :
        /\ respLog[i].StopReason = StopReasonToolUse
        /\ Len(ValidInvocations(respLog[i])) >= 1
        /\ \A k \in 1..Len(ValidInvocations(respLog[i])) :
               ValidInvocations(respLog[i])[k].Name \in handlers

\* C2: no call makes more than maxIterations sendRequest calls; a call with
\* valid params whose every request was answered by a tool_use response with
\* well-formed, handled calls ends with the iteration-limit error after exactly
\* maxIterations sends and maxIterations dispatch rounds.
C2_IterationLimit ==
    /\ sends <= maxIterations
    /\ (/\ pc = "done"
        /\ ~params.nil
        /\ validateToolParams(params) = NilErr
        /\ Len(respLog) = sends
        /\ OnlyHandledToolUse)
       => /\ FailedWith(ErrIterationLimit)
          /\ ret.err.d = maxIterations
          /\ sends = maxIterations
          /\ rounds = maxIterations
          /\ iterations = maxIterations

C2_Witness ==
    /\ pc = "done"
    /\ FailedWith(ErrIterationLimit)
    /\ sends = maxIterations
    /\ rounds = maxIterations
    /\ OnlyHandledToolUse

\* C4: when an iteration has dispatched a tool_use response whose N well-formed
\* invocations all have handlers, there are exactly N results, the i-th a
\* tool_result carrying the id of the i-th invocation, and they are the content
\* of one new user turn appended right after the assistant turn.
C4_ResultsInOrder ==
    (pc = "loop" /\ rounds >= 1) =>
        LET inv == ValidInvocations(resp) IN
        /\ Len(resultContents) = Len(inv)
        /\ \A i \in 1..Len(inv) :
               /\ resultContents[i].Type = ContentTypeToolResult
               /\ resultContents[i].ToolUseID = inv[i].ID
        /\ Len(conversation) = Len(before) + 1 + 2 * rounds
        /\ conversation[Len(conversation)] = Message(RoleUser, resultContents)
        /\ conversation[Len(conversation) - 1] = Message(RoleAssistant, resp.Content)

C4_Witness ==
    /\ pc = "loop"
    /\ rounds = 1
    /\ Len(resultContents) = 2
    /\ resultContents[1].ToolUseID = "toolu_2"
    /\ resultContents[2].ToolUseID = "toolu_1"

\* C5: a failing handler yields, at the position of its call, a result with
\* is_error set and the failure as payload; results are collected in call
\* order; and a round is cut short only by a call without handler, never by a
\* handler's failure.
C5_HandlerError ==
    /\ Len(resultContents) = Len(callLog)
    /\ Len(callLog) <= Len(toolCalls)
    /\ \A i \in 1..Len(callLog) :
           /\ callLog[i].ID = toolCalls[i].ID
           /\ resultContents[i].ToolUseID = callLog[i].ID
           /\ resultContents[i].IsError = callLog[i].failed
           /\ callLog[i].failed =>
                  resultContents[i].Content = "Error executing tool: " \o HandlerFailure
    /\ Len(callLog) < Len(toolCalls) =>
           \/ pc = "dispatch"
           \/ /\ pc = "done"
              /\ FailedWith(ErrDispatch)
              /\ toolCalls[Len(callLog) + 1].Name \notin handlers

C5_Witness ==
    /\ pc = "loop"
    /\ rounds = 1
    /\ Len(callLog) = 2
    /\ callLog[1].failed
    /\ ~callLog[2].failed
    /\ resultContents[1].IsError
    /\ ~resultContents[2].IsError

\* C6: when a well-formed invocation of the current response names a tool
\* without handler, the call can only be dispatching the invocations before it
\* or have failed with the dispatch error naming the first such tool: no
\* result turn is appended and no further request is sent.
C6_MissingHandler ==
    Unhandled # {} =>
        \/ pc = "dispatch" /\ callIdx <= FirstUnhandled
        \/ /\ pc = "done"
           /\ FailedWith(ErrDispatch)
           /\ ret.err.s = toolCalls[FirstUnhandled].Name
           /\ Len(callLog) = FirstUnhandled - 1
           /\ sends = Len(respLog)
           /\ conversation[Len(conversation)] = Message(RoleAssistant, resp.Content)

C6_Witness ==
    /\ pc = "done"
    /\ FailedWith(ErrDispatch)
    /\ ret.err.s = "search"
    /\ Len(toolCalls) = 2
    /\ FirstUnhandled = 2
    /\ Len(callLog) = 1
    /\ ~callLog[1].failed

(***************************************************************************)
(* Properties checked on both ChatWithTools and on the validators          *)
(***************************************************************************)
\* The call failed in parameter validation.
FailedConfiguration ==
    /\ ret.returned
    /\ ret.resp.nil
    /\ ret.err.fmt \in {ErrConfiguration, "invalid parameters: %w"}

\* C3: a successful ChatWithTools returns the response it received last,
\* unchanged; that response does not ask for tool use and every response before
\* it did.
C3_SuccessIsFirstNonToolUse ==
    (pc = "done" /\ Succeeded) =>
        /\ ~ret.resp.nil
        /\ Len(respLog) >= 1
        /\ ret.resp = respLog[Len(respLog)]
        /\ ret.resp.StopReason # StopReasonToolUse
        /\ \A i \in 1..(Len(respLog) - 1) : respLog[i].StopReason = StopReasonToolUse

\* C7: a call that fails in parameter validation has made no sendRequest call,
\* and a call whose parameters declare tools and choose type "tool" with an
\* empty name fails in parameter validation.
C7_ConfigurationErrorBeforeTransport ==
    /\ (pc = "done" /\ FailedConfiguration) => sends = 0
    /\ (/\ pc # "idle"
        /\ ~params.nil
        /\ ~params.Tools.nil
        /\ Len(params.Tools.elems) > 0
        /\ ~params.ToolChoice.nil
        /\ params.ToolChoice.Type = ToolChoiceTool
        /\ params.ToolChoice.Name = "")
       => (pc = "done" /\ FailedConfiguration /\ sends = 0)

\* C8: validateToolParams returns an error exactly when tools are declared and
\* the tool choice is missing, or has a type other than auto, none and tool, or
\* has type tool and no name.
C8_ValidationCases ==
    (pc \in {"validated", "validated_client"} /\ ~params.nil) =>
        ((ret.err # NilErr) <=>
            /\ ~params.Tools.nil
            /\ Len(params.Tools.elems) > 0
            /\ \/ params.ToolChoice.nil
               \/ params.ToolChoice.Type \notin {ToolChoiceAuto, ToolChoiceNone, ToolChoiceTool}
               \/ params.ToolChoice.Type = ToolChoiceTool /\ params.ToolChoice.Name = "")

(***************************************************************************)
(* Properties of the conversation store                                    *)
(***************************************************************************)
\* C9: with a positive bound, the history is no longer than the bound right
\* after every trim.
C9_TrimBounds ==
    (lastOp = "trim" /\ maxConvLength > 0) => Len(conversation) <= maxConvLength

C9_Witness ==
    /\ lastOp = "trim"
    /\ maxConvLength = 2
    /\ Len(before) = MaxHist
    /\ Len(conversation) = 2

\* C10: with a positive bound, a trim of a history longer than the bound leaves
\* exactly its last maxConvLength messages, each whole and in the same order; a
\* trim of a history within the bound leaves it as it was.
C10_SlidingWindow ==
    (lastOp = "trim" /\ maxConvLength > 0) =>
        IF Len(before) > maxConvLength
        THEN /\ Len(conversation) = maxConvLength
             /\ \A i \in 1..maxConvLength :
                    conversation[i] = before[Len(before) - maxConvLength + i]
        ELSE conversation = before

C10_Witness ==
    /\ lastOp = "trim"
    /\ maxConvLength = 2
    /\ Len(before) = 4
    /\ conversation = <<before[3], before[4]>>
    /\ before[2] # before[3]
    /\ before[3] # before[4]
    /\ Len(before[4].Content) = 2

\* C11: in the tool loop a trim follows every append, so on a client whose
\* maxConvLength is positive the history has at most maxConvLength messages
\* whenever a request has been built from it and when the call has returned.
C11_TrimAfterEveryAppend ==
    (maxConvLength > 0 /\ pc \in {"sending", "done"}) =>
        /\ Len(conversation) <= maxConvLength
        /\ (sends > 0 => Len(reqBody.Messages) <= maxConvLength)

\* The first response of the call carries content and the stop reason end_turn.
FirstResponseEnds ==
    /\ Len(respLog) >= 1
    /\ respLog[1].StopReason = StopReasonEndTurn
    /\ Len(respLog[1].Content) > 0

\* The call ended after one send and no handler call, returning its first
\* response, and the history is the history before the call with the user turn
\* and the assistant turn, trimmed to the client's bound.
OneRound ==
    /\ pc = "done"
    /\ Succeeded
    /\ ret.resp = respLog[1]
    /\ sends = 1
    /\ Len(respLog) = 1
    /\ rounds = 0
    /\ callLog = <<>>
    /\ \E message \in Messages :
           conversation =
               trimConversationHistory(
                   before \o <<Message(RoleUser, <<TextContent(message)>>),
                               Message(RoleAssistant, respLog[1].Content)>>,
                   maxConvLength)

C13_RequestCarriesMergedParams ==
    (sends > 0 /\ ~params.nil) =>
        /\ reqBody.Model = (IF params.Model # "" THEN params.Model ELSE defaultParams.Model)
        /\ reqBody.MaxTokens =
               (IF params.MaxTokens # 0 THEN params.MaxTokens ELSE defaultParams.MaxTokens)
        /\ reqBody.Temperature =
               (IF params.Temperature # 0 THEN params.Temperature
                                          ELSE defaultParams.Temperature)
        /\ reqBody.TopP = (IF params.TopP # 0 THEN params.TopP ELSE defaultParams.TopP)
        /\ reqBody.TopK = (IF params.TopK # 0 THEN params.TopK ELSE defaultParams.TopK)
        /\ reqBody.Tools = (IF ~params.Tools.nil THEN params.Tools ELSE defaultParams.Tools)
        /\ reqBody.ToolChoice =
               (IF ~params.ToolChoice.nil THEN params.ToolChoice
                                          ELSE defaultParams.ToolChoice)

\* errors.Is(err, target): err is target or wraps it with %w.
Is(err, target) == err = target \/ (err.fmt # "" /\ err.cause = target.fmt)

\* A sendRequest of the call has returned an error instead of a response.
TransportFailed ==
    /\ sends > Len(respLog)
    /\ pc \notin {"sending", "client_sending"}

\* C14: when sendRequest fails, ChatWithTools returns at once a nil response
\* and an error wrapping sendRequest's error; the failed send gets no assistant
\* turn (the history ends with the user turn sent), and after the failure the
\* call takes no further step: no retry, no other send, no handler call.
C14_TransportFailureAborts ==
    /\ [](TransportFailed =>
            /\ pc = "done"
            /\ ret.returned
            /\ ret.resp.nil
            /\ ret.err # NilErr
            /\ Is(ret.err, TransportError)
            /\ Len(conversation) >= 1
            /\ conversation[Len(conversation)].Role = RoleUser
            /\ maxConvLength = 0 =>
                   Len(conversation) = Len(before) + 1 + Len(respLog) + rounds)
    /\ [][~TransportFailed]_vars

C14_Witness ==
    /\ TransportFailed
    /\ sends = 2
    /\ rounds = 1
    /\ Len(callLog) = 2
    /\ ret.err.fmt = ErrTransport
    /\ ret.err.d = 1

\* The call ended with a fatal error after its user turn was appended.
FatalAfterUserTurn ==
    /\ pc = "done"
    /\ ret.returned
    /\ ret.err.fmt \in {ErrTransport, ErrProtocol, ErrDispatch, ErrIterationLimit}

\* C15: no failure rolls the history back. When the call has ended with a
\* transport, protocol, dispatch or iteration-limit error, the history is the
\* history before the call followed by every turn the call committed: the user
\* turn, the assistant turn of every response received and the result turn of
\* every completed round; and no step ever removes or changes a message.
C15_NoRollback ==
    /\ [](FatalAfterUserTurn =>
            /\ Len(conversation) = Len(before) + 1 + Len(respLog) + rounds
            /\ SubSeq(conversation, 1, Len(before)) = before
            /\ \E message \in Messages :
                   conversation[Len(before) + 1] =
                       Message(RoleUser, <<TextContent(message)>>)
            /\ \A i \in 1..Len(respLog) :
                   conversation[Len(before) + 2 * i] =
                       Message(RoleAssistant, respLog[i].Content)
            /\ \A i \in 1..rounds :
                   LET turn == conversation[Len(before) + 2 * i + 1]
                       calls == ValidInvocations(respLog[i])
                   IN  /\ turn.Role = RoleUser
                       /\ Len(turn.Content) = Len(calls)
                       /\ \A k \in 1..Len(calls) :
                              /\ turn.Content[k].Type = ContentTypeToolResult
                              /\ turn.Content[k].ToolUseID = calls[k].ID)
    /\ [][/\ Len(conversation') >= Len(conversation)
          /\ SubSeq(conversation', 1, Len(conversation)) = conversation]_vars

C15_Witness ==
    /\ FatalAfterUserTurn
    /\ FailedWith(ErrIterationLimit)
    /\ Len(before) = 2
    /\ rounds = maxIterations
    /\ Len(conversation) = 2 + 1 + 2 * maxIterations

\* A handler call of the current round returned its error with ctx cancelled.
HandlerSawCancel ==
    \E i \in 1..Len(callLog) : callLog[i].failed /\ callLog[i].cancelled

\* C16: when the context is cancelled during sendRequest or during a handler
\* call, the call aborts without a further step and the history is what it was
\* before the step in flight: a cancelled sendRequest appends no assistant turn
\* (the call ends with the history ending in the turn that was sent), and a
\* cancelled handler call ends the call with no handler called after it and no
\* tool-result turn appended for its round.
C16_CancellationAborts ==
    /\ (ctxDone /\ sends > Len(respLog) /\ pc # "sending") =>
           /\ pc = "done"
           /\ ret.returned
           /\ ret.err # NilErr
           /\ conversation[Len(conversation)].Role = RoleUser
           /\ Len(conversation) = Len(before) + 1 + Len(respLog) + rounds
    /\ (HandlerSawCancel /\ sends = Len(respLog)) =>
           /\ pc = "done"
           /\ ret.returned
           /\ ret.err # NilErr
           /\ callLog[Len(callLog)].failed
           /\ callLog[Len(callLog)].cancelled
           /\ conversation[Len(conversation)] = Message(RoleAssistant, resp.Content)

\* The last response asked for tool use and carries no well-formed tool call.
ToolUseWithoutCalls ==
    /\ ~resp.nil
    /\ resp.StopReason = StopReasonToolUse
    /\ Len(ValidInvocations(resp)) = 0

\* C17: when a response has stop reason tool_use and no well-formed tool call
\* (no tool_use item, or only malformed ones), the call fails with the protocol
\* error: no handler is called for the response, the history ends with the
\* response's assistant turn (no tool-result turn follows it), and no step of
\* the call follows, so no further request is sent.
C17_ProtocolError ==
    /\ [](ToolUseWithoutCalls =>
            /\ pc = "done"
            /\ FailedWith(ErrProtocol)
            /\ callLog = <<>>
            /\ resultContents = <<>>
            /\ sends = Len(respLog)
            /\ respLog[Len(respLog)] = resp
            /\ conversation[Len(conversation)] = Message(RoleAssistant, resp.Content)
            /\ Len(conversation) = Len(before) + 1 + Len(respLog) + rounds)
    /\ [](FailedWith(ErrProtocol) => ToolUseWithoutCalls)
    /\ [][~ToolUseWithoutCalls]_vars

C17_Witness ==
    /\ ToolUseWithoutCalls
    /\ pc = "done"
    /\ Len(resp.Content) = 2
    /\ resp.Content[1].Type = ContentTypeToolUse
    /\ resp.Content[2].Type = ContentTypeText
    /\ sends = 1

\* C18: extractToolCalls returns exactly the tool_use items of the response
\* that have a non-empty id, a non-empty name and a non-nil input, as ToolUse
\* values in the order of the content; text items and malformed tool_use items
\* are skipped, and a nil response gives the empty list.
C18_ExtractsValidCallsInOrder ==
    pc = "extracted" =>
        IF resp.nil
        THEN toolCalls = <<>>
        ELSE LET valid == ValidInvocations(resp)
             IN  /\ Len(toolCalls) = Len(valid)
                 /\ \A k \in 1..Len(valid) :
                        toolCalls[k] = ToolUse(valid[k].ID, valid[k].Name, valid[k].Input)

C18_Witness ==
    /\ pc = "extracted"
    /\ ~resp.nil
    /\ resp.Content = <<ToolUseContent("toolu_4", "search", NilInput),
                        ToolUseContent("toolu_2", "search", "{}"),
                        ToolUseContent("toolu_1", "get_weather", "{}")>>
    /\ toolCalls = <<ToolUse("toolu_2", "search", "{}"), ToolUse("toolu_1", "get_weather", "{}")>>

\* A turn that carries tool results.
IsResultTurn(turn) ==
    /\ turn.Role = RoleUser
    /\ \E k \in 1..Len(turn.Content) : turn.Content[k].Type = ContentTypeToolResult

\* The ids of the tool_use items of a turn.
RequestIds(turn) ==
    {turn.Content[k].ID :
         k \in {n \in 1..Len(turn.Content) : turn.Content[n].Type = ContentTypeToolUse}}

\* The ids the tool_result items of a turn answer.
ResultIds(turn) ==
    {turn.Content[k].ToolUseID :
         k \in {n \in 1..Len(turn.Content) : turn.Content[n].Type = ContentTypeToolResult}}

\* C19: every tool-result turn in the history stands right after the assistant
\* turn of its round (the turn made of that round's response), holds tool
\* results only, and the ids its results answer are a subset of the ids of the
\* tool_use items of that assistant turn.
C19_ResultsFollowTheirRequests ==
    \A j \in 1..Len(conversation) :
        IsResultTurn(conversation[j]) =>
            /\ j > Len(before) + 2
            /\ \E i \in 1..rounds :
                   /\ j = Len(before) + 2 * i + 1
                   /\ conversation[j - 1] = Message(RoleAssistant, respLog[i].Content)
            /\ \A k \in 1..Len(conversation[j].Content) :
                   conversation[j].Content[k].Type = ContentTypeToolResult
            /\ ResultIds(conversation[j]) # {}
            /\ ResultIds(conversation[j]) \subseteq RequestIds(conversation[j - 1])

C19_Witness ==
    /\ rounds = 1
    /\ pc = "loop"
    /\ IsResultTurn(conversation[Len(conversation)])
    /\ ResultIds(conversation[Len(conversation)]) = {"toolu_2"}
    /\ RequestIds(conversation[Len(conversation) - 1]) = {"toolu_2", ""}

\* The index in respLog of the response whose calls callLog records.
DispatchedResponse ==
    IF pc = "dispatch" \/ (pc = "done" /\ FailedWith(ErrDispatch))
    THEN Len(respLog)
    ELSE rounds

\* C20: within one round the handlers are called strictly one at a time and in
\* emission order: the n-th handler call of the round is for the n-th
\* well-formed invocation of the round's response, a step calls at most one
\* handler and has collected its result before the next is called, and the
\* results (and the turn made of them) are in the order of the handler calls.
C20_HandlersOneAtATimeInOrder ==
    /\ [](/\ callIdx = Len(callLog) + 1
          /\ Len(resultContents) = Len(callLog)
          /\ \A n \in 1..Len(callLog) :
                 /\ callLog[n].ID = ValidInvocations(respLog[DispatchedResponse])[n].ID
                 /\ callLog[n].Name = ValidInvocations(respLog[DispatchedResponse])[n].Name
                 /\ resultContents[n].ToolUseID = callLog[n].ID
          /\ (pc = "loop" /\ rounds >= 1) =>
                 /\ Len(callLog) = Len(ValidInvocations(respLog[rounds]))
                 /\ Len(conversation[Len(conversation)].Content) = Len(callLog)
                 /\ \A n \in 1..Len(callLog) :
                        conversation[Len(conversation)].Content[n].ToolUseID = callLog[n].ID)
    /\ [][Len(callLog') > Len(callLog) =>
              /\ Len(callLog') = Len(callLog) + 1
              /\ Len(resultContents') = Len(callLog')
              /\ SubSeq(callLog', 1, Len(callLog)) = callLog
              /\ SubSeq(resultContents', 1, Len(resultContents)) = resultContents]_vars

C20_Witness ==
    /\ pc = "dispatch"
    /\ Len(toolCalls) = 2
    /\ Len(callLog) = 1
    /\ callLog[1].ID = "toolu_2"
    /\ resultContents[1].ToolUseID = "toolu_2"
    /\ toolCalls[2].ID = "toolu_1"

\* The turns call i appends.
UserTurn(i) == Message(RoleUser, <<TextContent(CallMessage(i))>>)
AssistantTurn(i) == Message(RoleAssistant, CallReply(i).Content)
Owns(i, turn) == turn \in {UserTurn(i), AssistantTurn(i)}

\* A turn of one call stands between two turns of another in the history.
Interleaved ==
    \E i, j \in DOMAIN invocations :
        /\ i # j
        /\ \E a, b, c \in 1..Len(conversation) :
               /\ a < b
               /\ b < c
               /\ Owns(i, conversation[a])
               /\ Owns(j, conversation[b])
               /\ Owns(i, conversation[c])

\* The request of one call holds a turn appended by a call that has not
\* returned.
ForeignTurnInSnapshot ==
    \E i, j \in DOMAIN invocations :
        /\ i # j
        /\ invocations[i].reqBody # NoRequest
        /\ invocations[j].pc # "done"
        /\ \E k \in 1..Len(invocations[i].reqBody.Messages) :
               Owns(j, invocations[i].reqBody.Messages[k])

\* C21: the history has no lock. When calls on one client are serialized (no
\* call started while another was running), no turn of one call stands between
\* the turns of another, no request holds a turn of a call still running, each
\* request ends with its own call's user turn, and a call that returned its
\* response left its user turn and its assistant turn side by side in the
\* history. When calls overlap, such states are reachable (C21_Witness).
C21_SerializedCallsDoNotMix ==
    ~overlapped =>
        /\ ~Interleaved
        /\ ~ForeignTurnInSnapshot
        /\ \A i \in DOMAIN invocations :
               /\ invocations[i].reqBody # NoRequest =>
                      invocations[i].reqBody.Messages[Len(invocations[i].reqBody.Messages)]
                          = UserTurn(i)
               /\ (invocations[i].pc = "done" /\ invocations[i].ret.err = NilErr) =>
                      \E k \in 1..(Len(conversation) - 1) :
                          /\ conversation[k] = UserTurn(i)
                          /\ conversation[k + 1] = AssistantTurn(i)

C21_Witness ==
    /\ overlapped
    /\ Interleaved
    /\ ForeignTurnInSnapshot
    /\ conversation = <<UserTurn(1), UserTurn(2), AssistantTurn(1)>>
    /\ invocations[1].reqBody.Messages = <<UserTurn(1), UserTurn(2)>>
    /\ invocations[1].pc = "done"
    /\ invocations[2].pc = "sending"

\* C22: after any AddTool and AddTools calls, failed ones included, every tool
\* in the manager's tools has an entry under its name in the manager's handlers
\* and the entry is not nil: ValidateTool holds for every declared tool.
C22_DeclaredToolsHaveHandlers ==
    \A i \in 1..Len(manager.tools) :
        /\ ValidateTool(manager, manager.tools[i])
        /\ manager.handlers[manager.tools[i]] # NilHandler

C22_Witness ==
    /\ lastOp = "AddTools"
    /\ ret.err = ErrMissingHandler
    /\ manager.tools = <<"search", "get_weather">>
    /\ DOMAIN manager.handlers = {"search", "get_weather"}

\* C23: the tool results of a round are committed in one piece. While the
\* calls of a response are being dispatched, and after the round was aborted
\* for a missing handler, the history ends with the response's assistant turn
\* and holds no result of the round, whatever handlers have already run; the
\* step that appends the tool-result turn is the one that processes the last
\* invocation, and the turn holds the result of every invocation.
C23_ResultsCommittedTogether ==
    /\ []((pc = "dispatch" \/ FailedWith(ErrDispatch)) =>
            /\ conversation[Len(conversation)] = Message(RoleAssistant, resp.Content)
            /\ Len(conversation) = Len(before) + 1 + Len(respLog) + rounds
            /\ rounds = Len(respLog) - 1
            /\ Len(callLog) < Len(toolCalls))
    /\ [][Len(conversation') > Len(conversation) /\ pc = "dispatch" =>
              /\ Len(callLog') = Len(ValidInvocations(resp))
              /\ Len(conversation') = Len(conversation) + 1
              /\ conversation'[Len(conversation')].Role = RoleUser
              /\ Len(conversation'[Len(conversation')].Content) = Len(ValidInvocations(resp))
              /\ \A k \in 1..Len(callLog') :
                     conversation'[Len(conversation')].Content[k].ToolUseID = callLog'[k].ID]_vars

C23_Witness ==
    /\ FailedWith(ErrDispatch)
    /\ Len(callLog) = 1
    /\ Len(resultContents) = 1
    /\ Len(toolCalls) = 2
    /\ conversation[Len(conversation)].Role = RoleAssistant
    /\ Len(conversation) = Len(before) + 2

C25_RequestCarriesClientSystemPrompt ==
    /\ sends > 0 => reqBody.System = systemPrompt
    /\ pc \in {"sending", "client_sending"} => reqBody.Messages = conversation

\* C26: a bound that is not positive means no bound. A trim on a client whose
\* maxConvLength is zero or less removes nothing, however long the history
\* (trimConversationHistory returns the history as it is for every such bound),
\* and WithMaxConversationLength with a length of zero or less leaves the
\* client's bound as it was.
C26_NonPositiveBoundIsNoBound ==
    /\ []((lastOp = "trim" /\ maxConvLength <= 0) => conversation = before)
    /\ [](\A bound \in -1..0 : trimConversationHistory(conversation, bound) = conversation)
    /\ [][(lastOp' = "option" /\ lastArg' <= 0) => maxConvLength' = maxConvLength]_vars

C26_Witness ==
    /\ lastOp = "trim"
    /\ maxConvLength = 0
    /\ lastArg = -1
    /\ Len(before) = MaxHist
    /\ conversation = before

\* C27: building a request has no side effect. No step of ChatWithTools or
\* ChatMe changes the client's default parameters, whatever the override, so an
\* override is not seen by a later call; and a request, once built, is not
\* changed by the appends and trims that follow it in the call.
C27_RequestBuildingHasNoSideEffect ==
    /\ [][defaultParams' = defaultParams]_vars
    /\ [][(reqBody # NoRequest /\ pc' # "idle") => reqBody' = reqBody]_vars

C27_Witness ==
    /\ pc = "done"
    /\ Succeeded
    /\ defaultParams = ZeroParams
    /\ params.Model = "claude"
    /\ reqBody.Model = "claude"
    /\ maxConvLength = 2
    /\ Len(reqBody.Messages) = 2
    /\ conversation[1] = reqBody.Messages[2]
    /\ conversation[2].Role = RoleAssistant

\* C28: when ChatWithTools fails parameter validation, the conversation
\* history is as it was before the call: no user turn is left behind and no
\* request was sent.
C28_RejectedCallLeavesHistory ==
    (pc = "done" /\ FailedConfiguration) =>
        /\ conversation = before
        /\ sends = 0
        /\ reqBody = NoRequest

C28_Witness ==
    /\ pc = "done"
    /\ FailedConfiguration
    /\ ret.err.fmt = "invalid parameters: %w"
    /\ Len(conversation) >= 1
    /\ conversation = before

C28_WitnessLoop ==
    /\ pc = "done"
    /\ FailedConfiguration
    /\ ret.err.fmt = ErrConfiguration
    /\ conversation = before

\* C29: ChatWithTools called with nil params behaves like a call with an
\* all-zero override: no call crashes, a call with nil params returns, and the
\* parameters it validates and sends are the client's defaults, as they are
\* for the all-zero override.
C29_NilParamsAsZeroOverride ==
    /\ ~ret.panic
    /\ (pc = "done" /\ params.nil) => ret.returned
    /\ MergeParams(defaultParams, NilParams) = defaultParams
    /\ MergeParams(defaultParams, ZeroParams) = defaultParams

\* The tool loop was called with nil params and did not return.
C29_NilParamsCrash ==
    /\ pc = "done"
    /\ params.nil
    /\ ret.panic
    /\ ~ret.returned
    /\ conversation = before

\* The turns the call has appended to the history it found.
Committed == SubSeq(conversation, Len(before) + 1, Len(conversation))

\* The first turn is the user's, and each of the k rounds that follow is an
\* assistant turn and then a turn of tool results.
UserThenRounds(turns, k) ==
    /\ Len(turns) >= 2 * k + 1
    /\ turns[1].Role = RoleUser
    /\ ~IsResultTurn(turns[1])
    /\ \A j \in 1..k :
           /\ turns[2 * j].Role = RoleAssistant
           /\ IsResultTurn(turns[2 * j + 1])

\* C30: the turns one ChatWithTools call commits are user, then (assistant,
\* tool results) for each round, then assistant. A successful call with k tool
\* rounds, k below maxIterations, has appended exactly 2k + 2 turns to the
\* history it found, and a call that ends with the iteration-limit error has
\* appended exactly 1 + 2 * maxIterations turns.
C30_CommittedTurnsPattern ==
    /\ (pc = "done" /\ Succeeded) =>
           /\ rounds < maxIterations
           /\ rounds = Len(respLog) - 1
           /\ SubSeq(conversation, 1, Len(before)) = before
           /\ Len(conversation) = Len(before) + 2 * rounds + 2
           /\ UserThenRounds(Committed, rounds)
           /\ Committed[2 * rounds + 2].Role = RoleAssistant
    /\ (pc = "done" /\ FailedWith(ErrIterationLimit)) =>
           /\ rounds = maxIterations
           /\ SubSeq(conversation, 1, Len(before)) = before
           /\ Len(conversation) = Len(before) + 1 + 2 * maxIterations
           /\ UserThenRounds(Committed, maxIterations)

C30_Witness ==
    /\ pc = "done"
    /\ Succeeded
    /\ rounds = 2
    /\ Len(before) = 2
    /\ Len(conversation) = 8

C30_WitnessLimit ==
    /\ pc = "done"
    /\ FailedWith(ErrIterationLimit)
    /\ Len(conversation) = Len(before) + 21

\* A step that calls sendRequest.
SendStep == sends' = sends + 1

\* A step that calls a handler.
HandlerStep == callLog' # callLog /\ Len(callLog') = Len(callLog) + 1

\* C31: within one call, sends and handler calls alternate in phases. A
\* handler is called only with every send answered and the last response
\* asking for tool use, so never before the first response; a send after the
\* first follows a round in which at least one handler was called; and a call
\* that has returned sends nothing, calls no handler and appends nothing.
C31_SendsAndHandlersAlternate ==
    /\ [][HandlerStep =>
              /\ sends >= 1
              /\ Len(respLog) = sends
              /\ resp = respLog[sends]
              /\ resp.StopReason = StopReasonToolUse]_vars
    /\ [][(SendStep /\ sends >= 1) =>
              /\ Len(respLog) = sends
              /\ resp.StopReason = StopReasonToolUse
              /\ Len(callLog) >= 1
              /\ rounds = sends]_vars
    /\ [][(pc = "done") =>
              /\ sends' = sends
              /\ callLog' = callLog
              /\ conversation' = conversation
              /\ pc' = "done"]_vars
    /\ [](sends \in {Len(respLog), Len(respLog) + 1})
    /\ [](sends <= rounds + 1)

C31_Witness ==
    /\ pc = "done"
    /\ ret.returned
    /\ sends = 3
    /\ rounds = 2
    /\ Len(respLog) = 3
    /\ respLog[1].StopReason = StopReasonToolUse
    /\ Len(respLog[1].Content) = 2
    /\ respLog[3].StopReason # StopReasonToolUse

(***************************************************************************)
(* The tool loop and ChatMe on one client with a bounded history           *)
(***************************************************************************)
\* The tool loop has returned after one round: the client is ready for the
\* next call, with the history the loop left.
NextCallAfterTools ==
    /\ pc = "done"
    /\ ret.returned
    /\ before = <<>>
    /\ rounds = 1
    /\ resp \in LateResponses
    /\ pc' = "idle"
    /\ params' = ZeroParams
    /\ handlers' = {}
    /\ iterations' = 0
    /\ reqBody' = NoRequest
    /\ resp' = NilResponse
    /\ toolCalls' = <<>>
    /\ callIdx' = 1
    /\ resultContents' = <<>>
    /\ ret' = NoRet
    /\ sends' = 0
    /\ rounds' = 0
    /\ respLog' = <<>>
    /\ callLog' = <<>>
    /\ before' = <<>>
    /\ lastOp' = "none"
    /\ ctxDone' = FALSE
    /\ UNCHANGED <<conversation, maxConvLength, defaultParams, systemPrompt, extraVars>>

\* The tool loop is called on the new client, ChatMe on the client the loop
\* left.
NextMixed ==
    \/ (pc = "idle" => conversation = <<>>) /\ Next
    \/ \E m \in Messages, p \in ChatParams : conversation # <<>> /\ ChatMe(m, p)
    \/ ClientRequestFails
    \/ \E r \in LateResponses : ClientReceiveResponse(r)
    \/ NextCallAfterTools

SpecMixed == InitConfigured /\ [][NextMixed]_vars

\* Every turn of tool results in the history stands right after an assistant
\* turn that holds the tool_use items its results answer.
ResultsPaired(conv) ==
    \A j \in 1..Len(conv) :
        IsResultTurn(conv[j]) =>
            /\ j > 1
            /\ conv[j - 1].Role = RoleAssistant
            /\ ResultIds(conv[j]) \subseteq RequestIds(conv[j - 1])

\* C32: in every state of the history, trimmed or not, and in every request
\* sent, each turn of tool results stands right after the assistant turn with
\* the matching tool_use items: the trim never leaves a turn of tool results
\* without the assistant turn that asked for them.
C32_ResultsKeepTheirRequests ==
    /\ ResultsPaired(conversation)
    /\ reqBody # NoRequest => ResultsPaired(reqBody.Messages)

\* ChatMe after a tool round on a client bounded to three turns: the request
\* starts with the turn of tool results.
C32_OrphanResults ==
    /\ pc = "client_sending"
    /\ maxConvLength = 3
    /\ Len(reqBody.Messages) = 3
    /\ IsResultTurn(reqBody.Messages[1])
    /\ reqBody.Messages[2].Role = RoleAssistant
    /\ reqBody.Messages[3] = Message(RoleUser, <<TextContent("ping")>>)

\* The positions of the results in turn that answer id.
AnswersTo(turn, id) ==
    {k \in 1..Len(turn.Content) :
         turn.Content[k].Type = ContentTypeToolResult /\ turn.Content[k].ToolUseID = id}

\* Every tool_use item of the assistant turn has exactly one result with its id
\* in the results turn, and no result of that turn shares its id with another.
AnsweredOnce(assistant, results) ==
    /\ \A n \in 1..Len(assistant.Content) :
           assistant.Content[n].Type = ContentTypeToolUse =>
               Cardinality(AnswersTo(results, assistant.Content[n].ID)) = 1
    /\ \A k \in 1..Len(results.Content) :
           results.Content[k].Type = ContentTypeToolResult =>
               Cardinality(AnswersTo(results, results.Content[k].ToolUseID)) = 1

\* C33: when the loop sends a follow-up request after a tool round, every
\* tool_use item of the assistant turn committed for that round has exactly one
\* tool result with its id in the turn that follows it: none is left unanswered
\* and no id is answered twice.
C33_EveryToolUseAnsweredOnce ==
    (pc = "sending" /\ rounds >= 1) =>
        LET n == Len(reqBody.Messages) IN
        /\ n >= 3
        /\ reqBody.Messages[n - 1] = Message(RoleAssistant, respLog[rounds].Content)
        /\ IsResultTurn(reqBody.Messages[n])
        /\ AnsweredOnce(reqBody.Messages[n - 1], reqBody.Messages[n])

\* A follow-up request whose assistant turn holds a tool_use item without id
\* beside a well-formed one: the results turn answers the well-formed one only.
C33_UnansweredToolUse ==
    /\ pc = "sending"
    /\ rounds = 1
    /\ respLog[1].Content = <<ToolUseContent("", "get_weather", "{}"),
                              ToolUseContent("toolu_2", "search", "{}")>>
    /\ reqBody.Messages[Len(reqBody.Messages) - 1].Content = respLog[1].Content
    /\ ResultIds(reqBody.Messages[Len(reqBody.Messages)]) = {"toolu_2"}
    /\ Len(reqBody.Messages[Len(reqBody.Messages)].Content) = 1

\* A follow-up request whose assistant turn holds the same tool_use id twice:
\* the results turn answers that id twice.
C33_AnsweredTwice ==
    /\ pc = "sending"
    /\ rounds = 1
    /\ respLog[1].Content = <<ToolUseContent("toolu_1", "get_weather", "{}"),
                              ToolUseContent("toolu_1", "get_weather", "{}")>>
    /\ Cardinality(AnswersTo(reqBody.Messages[Len(reqBody.Messages)], "toolu_1")) = 2

\* The history starts with a user turn and no two turns that follow each other
\* have the same role.
RolesAlternate(conv) ==
    /\ Len(conv) >= 1 => conv[1].Role = RoleUser
    /\ \A j \in 1..(Len(conv) - 1) : conv[j].Role # conv[j + 1].Role

\* C34: after any sequence of ChatMe and ChatWithTools calls, one after the
\* other, successful or failed, on a client with an unbounded history, the
\* roles alternate in the history and the history starts with a user turn.
C34_RolesAlternate ==
    (maxConvLength = 0 /\ pc \in {"idle", "done"}) => RolesAlternate(conversation)

\* A call whose request failed, then a successful call, on a new client: the
\* first call's user turn is followed by the second call's.
C34_TwoUserTurns ==
    /\ maxConvLength = 0
    /\ pc = "done"
    /\ Succeeded
    /\ Len(before) = 1
    /\ conversation = <<Message(RoleUser, <<TextContent("ping")>>),
                        Message(RoleUser, <<TextContent("ping")>>),
                        Message(RoleAssistant, <<TextContent("hello")>>)>>

\* The formats of the five terminal failures of the tool loop.
FailureFormats ==
    {ErrConfiguration, ErrTransport, ErrProtocol, ErrDispatch, ErrIterationLimit}

\* The failure each stage of the call ends with.
ConfigurationRejected == ~params.nil /\ validateToolParams(params) # NilErr
LimitHit == IterationLimitReached(iterations) /\ rounds = maxIterations

\* C35: the terminal failures of ChatWithTools can be told apart. A call that
\* returns an error returns exactly one of five different errors, each for its
\* own cause: configuration, transport, protocol, dispatch, iteration limit. The
\* transport error carries the iteration of the failed send and wraps
\* sendRequest's error, the dispatch error carries the name of the tool without
\* handler, the configuration error wraps the validator's error and the
\* iteration-limit error carries the limit.
C35_FailuresDistinguishable ==
    /\ Cardinality(FailureFormats) = 5
    /\ (pc = "done" /\ ret.returned /\ ret.err # NilErr) =>
           /\ ret.resp.nil
           /\ ret.err.fmt \in FailureFormats
    /\ (pc = "done" /\ FailedWith(ErrConfiguration)) =>
           /\ ConfigurationRejected
           /\ sends = 0
           /\ Is(ret.err, validateToolParams(params))
    /\ (pc = "done" /\ FailedWith(ErrTransport)) =>
           /\ TransportFailed
           /\ ~ConfigurationRejected
           /\ ret.err.d = iterations
           /\ ret.err.d = rounds
           /\ Is(ret.err, TransportError)
           /\ ret.err.cause = TransportError.fmt
    /\ (pc = "done" /\ FailedWith(ErrProtocol)) =>
           /\ ToolUseWithoutCalls
           /\ ~TransportFailed
    /\ (pc = "done" /\ FailedWith(ErrDispatch)) =>
           /\ ~TransportFailed
           /\ ~ToolUseWithoutCalls
           /\ Unhandled # {}
           /\ ret.err.s = toolCalls[FirstUnhandled].Name
           /\ ret.err.s \notin handlers
           /\ ret.err.s # ""
    /\ (pc = "done" /\ FailedWith(ErrIterationLimit)) =>
           /\ LimitHit
           /\ ~TransportFailed
           /\ ret.err.d = maxIterations

C35_Witness ==
    /\ pc = "done"
    /\ FailedWith(ErrTransport)
    /\ ret.err.d = 1
    /\ ret.err.cause = "error sending request: %w"
    /\ rounds = 1
    /\ sends = 2

C35_WitnessDispatch ==
    /\ pc = "done"
    /\ FailedWith(ErrDispatch)
    /\ ret.err.s = "search"
    /\ handlers = {"get_weather"}
    /\ Len(callLog) = 1

\* C36: tool names in a ToolManager are unique. After any sequence of AddTool
\* and AddTools calls GetTools holds no two declarations with the same name,
\* and it holds as many declarations as the handler map has entries.
C36_ToolNamesUnique ==
    /\ \A i, j \in 1..Len(GetTools(manager)) :
           i # j => GetTools(manager)[i] # GetTools(manager)[j]
    /\ Len(GetTools(manager)) = Cardinality(DOMAIN GetHandlers(manager))

\* AddTool called twice for one name: two declarations, one handler entry.
C36_DeclaredTwice ==
    /\ lastOp = "AddTool"
    /\ ret.err = NilErr
    /\ GetTools(manager) = <<"search", "search">>
    /\ DOMAIN GetHandlers(manager) = {"search"}

\* C37: AddTools is all or nothing. When it returns an error, for a tool
\* without an entry in the given map or with a nil handler there, the
\* manager's tool list and handler map are what they were before the call.
C37_AddToolsAllOrNothing ==
    [][(lastOp' = "AddTools" /\ ret'.err # NilErr) => manager' = manager]_vars

\* AddTools([search, get_weather], {search: f}) on a new manager has returned
\* ErrMissingHandler and search is declared.
C37_PartlyAdded ==
    /\ lastOp = "AddTools"
    /\ ret.err = ErrMissingHandler
    /\ GetTools(manager) = <<"search">>
    /\ DOMAIN GetHandlers(manager) = {"search"}

\* C40: AddTool with a nil handler returns ErrNilHandler and leaves the tool
\* list and the handler map as they were; AddTool with a non-nil handler
\* returns no error, appends the declaration and sets the handler under the
\* tool's name, leaving the other entries of the map as they were. Stated for
\* every tool on every manager reached, and for every AddTool call made.
C40_AddToolNilOrAppend ==
    /\ [](\A tool \in ToolNames :
              /\ AddTool(manager, tool, NilHandler).err = ErrNilHandler
              /\ AddTool(manager, tool, NilHandler).tm = manager
              /\ LET added == AddTool(manager, tool, HandlerFunc) IN
                 /\ added.err = NilErr
                 /\ GetTools(added.tm) = Append(GetTools(manager), tool)
                 /\ DOMAIN GetHandlers(added.tm) = DOMAIN GetHandlers(manager) \cup {tool}
                 /\ GetHandlers(added.tm)[tool] = HandlerFunc
                 /\ \A n \in DOMAIN GetHandlers(manager) \ {tool} :
                        GetHandlers(added.tm)[n] = GetHandlers(manager)[n])
    /\ [][lastOp' = "AddTool" =>
              \/ /\ ret'.err = ErrNilHandler
                 /\ manager' = manager
              \/ /\ ret'.err = NilErr
                 /\ Len(GetTools(manager')) = Len(GetTools(manager)) + 1
                 /\ SubSeq(GetTools(manager'), 1, Len(GetTools(manager))) = GetTools(manager)
                 /\ GetHandlers(manager')[GetTools(manager')[Len(GetTools(manager'))]]
                        = HandlerFunc]_vars

C40_Witness ==
    /\ lastOp = "AddTool"
    /\ ret.err = ErrNilHandler
    /\ GetTools(manager) = <<"get_weather">>
    /\ GetHandlers(manager) = SetHandler(NoHandlers, "get_weather", HandlerFunc)

C40_WitnessAdded ==
    /\ lastOp = "AddTool"
    /\ ret.err = NilErr
    /\ GetTools(manager) = <<"get_weather", "search">>
    /\ DOMAIN GetHandlers(manager) = {"get_weather", "search"}

(***************************************************************************)
(* EnableDebug, DisableDebug, debugLog and debugLogJSON                    *)
(***************************************************************************)
\* The log files a run creates at most.
MaxFiles == 2

\* Every variable but debug.
clientVars ==
    <<conversation, maxConvLength, defaultParams, systemPrompt, pc, params, handlers,
      iterations, reqBody, resp, toolCalls, callIdx, resultContents, ret, sends, rounds,
      respLog, callLog, before, lastOp, ctxDone, invocations, overlapped, manager,
      lastArg>>

\* IsDebugEnabled returns the flag.
IsDebugEnabled == debug.isDebugEnabled

\* debugMutex.Unlock() of the deferred call and the return of err.
Returned(d, g, err) ==
    [d EXCEPT !.debugMutex = "free", !.at[g] = "idle", !.result = err]

\* debugMutex.Lock() by goroutine g.
Locked(d, g) == [d EXCEPT !.debugMutex = g]

\* f.Close(): the file is closed; a second Close of it is recorded.
Closed(d) ==
    [d EXCEPT !.open = d.open \ {d.debugLogFile},
              !.closedTwice = d.closedTwice \/ d.debugLogFile \notin d.open]

\* fmt.Fprintf(debugLogFile, ...) by function fn: a write to a closed file is
\* recorded.
Written(d, fn) ==
    IF d.debugLogFile # NilFile /\ d.debugLogFile \notin d.open
    THEN [d EXCEPT !.wroteClosed = d.wroteClosed \cup {fn}]
    ELSE d

\* EnableDebug: debugMutex.Lock()
EnableLock ==
    /\ debug.at[Switcher] = "idle"
    /\ debug.debugMutex = "free"
    /\ debug.created < MaxFiles
    /\ debug' = [Locked(debug, Switcher) EXCEPT !.at[Switcher] = "enable_set",
                                                 !.result = "none"]
    /\ UNCHANGED clientVars

\* EnableDebug: isDebugEnabled = true
EnableSet ==
    /\ debug.at[Switcher] = "enable_set"
    /\ debug' = [debug EXCEPT !.isDebugEnabled = TRUE, !.at[Switcher] = "enable_close"]
    /\ UNCHANGED clientVars

\* initDebugLogFile: the file of the last session, if any, is closed.
EnableClose ==
    /\ debug.at[Switcher] = "enable_close"
    /\ debug' = IF debug.debugLogFile # NilFile
                THEN [Closed(debug) EXCEPT !.at[Switcher] = "enable_mkdir"]
                ELSE [debug EXCEPT !.at[Switcher] = "enable_mkdir"]
    /\ UNCHANGED clientVars

\* initDebugLogFile: os.MkdirAll succeeds or fails.
EnableMkdir(ok) ==
    /\ debug.at[Switcher] = "enable_mkdir"
    /\ debug' = IF ok
                THEN [debug EXCEPT !.at[Switcher] = "enable_create"]
                ELSE Returned(debug, Switcher, "failed to create logs directory: %w")
    /\ UNCHANGED clientVars

\* initDebugLogFile: os.Create gives a new open file, or nil and an error.
EnableCreate(ok) ==
    /\ debug.at[Switcher] = "enable_create"
    /\ debug' = IF ok
                THEN [debug EXCEPT !.created = debug.created + 1,
                                   !.debugLogFile = debug.created + 1,
                                   !.open = debug.open \cup {debug.created + 1},
                                   !.at[Switcher] = "enable_write"]
                ELSE Returned([debug EXCEPT !.debugLogFile = NilFile], Switcher,
                              "failed to create log file: %w")
    /\ UNCHANGED clientVars

\* initDebugLogFile: the session start marker is written, or the write fails.
EnableWrite(ok) ==
    /\ debug.at[Switcher] = "enable_write"
    /\ debug' = Returned(Written(debug, "EnableDebug"), Switcher,
                         IF ok THEN "nil" ELSE "write error")
    /\ UNCHANGED clientVars

\* DisableDebug: debugMutex.Lock()
DisableLock ==
    /\ debug.at[Switcher] = "idle"
    /\ debug.debugMutex = "free"
    /\ debug' = [Locked(debug, Switcher) EXCEPT !.at[Switcher] = "disable_set",
                                                 !.result = "none"]
    /\ UNCHANGED clientVars

\* DisableDebug: isDebugEnabled = false
DisableSet ==
    /\ debug.at[Switcher] = "disable_set"
    /\ debug' = [debug EXCEPT !.isDebugEnabled = FALSE, !.at[Switcher] = "disable_write"]
    /\ UNCHANGED clientVars

\* closeDebugLogFile: nothing to do without a file; else the session end marker
\* is written, which fails on a closed file and may fail on an open one.
DisableWrite(ok) ==
    /\ debug.at[Switcher] = "disable_write"
    /\ debug' =
           IF debug.debugLogFile = NilFile
           THEN Returned(debug, Switcher, "nil")
           ELSE IF debug.debugLogFile \notin debug.open
           THEN Returned(Written(debug, "DisableDebug"), Switcher, "file already closed")
           ELSE IF ok
           THEN [debug EXCEPT !.at[Switcher] = "disable_close"]
           ELSE Returned(debug, Switcher, "write error")
    /\ UNCHANGED clientVars

\* closeDebugLogFile: return debugLogFile.Close(); debugLogFile keeps its value.
DisableClose ==
    /\ debug.at[Switcher] = "disable_close"
    /\ debug' = Returned(Closed(debug), Switcher, "nil")
    /\ UNCHANGED clientVars

\* An unlocked read by the logger made while the switcher is between Lock and
\* Unlock.
Read(d) == [d EXCEPT !.raced = d.raced \/ d.debugMutex = Switcher]

\* debugLog or debugLogJSON: if !isDebugEnabled, read without the mutex.
LogReadsEnabled(fn) ==
    /\ debug.at[Logger] = "idle"
    /\ debug' = IF ~debug.isDebugEnabled
                THEN Read(debug)
                ELSE [Read(debug) EXCEPT !.at[Logger] = fn]
    /\ UNCHANGED clientVars

\* debugLog or debugLogJSON: || debugLogFile == nil, read without the mutex.
LogReadsFile ==
    /\ debug.at[Logger] \in {"debugLog", "debugLogJSON"}
    /\ debug' = IF debug.debugLogFile = NilFile
                THEN [Read(debug) EXCEPT !.at[Logger] = "idle"]
                ELSE [Read(debug) EXCEPT !.at[Logger] = debug.at[Logger] \o ":lock"]
    /\ UNCHANGED clientVars

\* debugLog or debugLogJSON: debugMutex.Lock()
LogLock ==
    /\ debug.at[Logger] \in {"debugLog:lock", "debugLogJSON:lock"}
    /\ debug.debugMutex = "free"
    /\ debug' = [Locked(debug, Logger) EXCEPT
                    !.at[Logger] = IF debug.at[Logger] = "debugLog:lock"
                                   THEN "debugLog:write" ELSE "debugLogJSON:write"]
    /\ UNCHANGED clientVars

\* debugLog or debugLogJSON: fmt.Fprintf(debugLogFile, ...), then the deferred
\* Unlock.
LogWrite ==
    /\ debug.at[Logger] \in {"debugLog:write", "debugLogJSON:write"}
    /\ debug' = [Written(debug, IF debug.at[Logger] = "debugLog:write"
                               THEN "debugLog" ELSE "debugLogJSON")
                    EXCEPT !.debugMutex = "free", !.at[Logger] = "idle"]
    /\ UNCHANGED clientVars

\* The program starts: debugging is off and there is no file.
InitDebug ==
    /\ conversation = <<>>
    /\ maxConvLength = 0
    /\ defaultParams = ZeroParams
    /\ systemPrompt = ""
    /\ NoCall
    /\ NoExtras

NextDebug ==
    \/ EnableLock
    \/ EnableSet
    \/ EnableClose
    \/ \E ok \in BOOLEAN : EnableMkdir(ok)
    \/ \E ok \in BOOLEAN : EnableCreate(ok)
    \/ \E ok \in BOOLEAN : EnableWrite(ok)
    \/ DisableLock
    \/ DisableSet
    \/ \E ok \in BOOLEAN : DisableWrite(ok)
    \/ DisableClose
    \/ \E fn \in {"debugLog", "debugLogJSON"} : LogReadsEnabled(fn)
    \/ LogReadsFile
    \/ LogLock
    \/ LogWrite

SpecDebug == InitDebug /\ [][NextDebug]_vars

\* An open debug log file exists: debugLogFile refers to a file not yet closed.
OpenLogFile == debug.debugLogFile # NilFile /\ debug.debugLogFile \in debug.open

\* No EnableDebug or DisableDebug call is running.
SwitcherIdle == debug.at[Switcher] = "idle"

\* C38: after any sequence of EnableDebug and DisableDebug calls, failed ones
\* included, IsDebugEnabled() is true exactly when an open debug log file
\* exists; DisableDebug leaves no reference to a closed file, so that no later
\* DisableDebug or EnableDebug writes to a closed file or closes one again.
C38_EnabledIffOpenFile ==
    /\ SwitcherIdle => (IsDebugEnabled <=> OpenLogFile)
    /\ SwitcherIdle => (debug.debugLogFile # NilFile => OpenLogFile)
    /\ "DisableDebug" \notin debug.wroteClosed
    /\ ~debug.closedTwice

\* EnableDebug has failed in os.MkdirAll on a new program: debugging is on and
\* there is no file.
C38_EnabledWithoutFile ==
    /\ SwitcherIdle
    /\ debug.result = "failed to create logs directory: %w"
    /\ IsDebugEnabled
    /\ debug.debugLogFile = NilFile
    /\ debug.created = 0

\* EnableDebug, DisableDebug, DisableDebug: the second DisableDebug has written
\* to the file the first one closed.
C38_WroteClosedFile ==
    /\ SwitcherIdle
    /\ debug.result = "file already closed"
    /\ ~IsDebugEnabled
    /\ debug.debugLogFile = 1
    /\ debug.open = {}
    /\ debug.wroteClosed = {"DisableDebug"}
    /\ debug.at[Logger] = "idle"
    /\ ~debug.raced

\* EnableDebug, DisableDebug, EnableDebug: the second EnableDebug has closed
\* the closed file again.
C38_ClosedTwice ==
    /\ SwitcherIdle
    /\ debug.closedTwice
    /\ debug.wroteClosed = {}
    /\ debug.created = 2
    /\ debug.at[Logger] = "idle"
    /\ ~debug.raced

\* C39: debug logging is free of races. With debugLog or debugLogJSON running
\* beside EnableDebug or DisableDebug, no log write goes to a file that has been
\* closed, and the flag and the file handle are never read while the other
\* goroutine is changing them.
C39_LoggingRaceFree ==
    /\ debug.wroteClosed \cap {"debugLog", "debugLogJSON"} = {}
    /\ ~debug.raced

\* debugLog has passed its check with debugging on, DisableDebug has closed the
\* file, and debugLog has written to it.
C39_LogToClosedFile ==
    /\ debug.wroteClosed = {"debugLog"}
    /\ ~debug.raced
    /\ ~debug.closedTwice
    /\ debug.created = 1
    /\ debug.open = {}
    /\ ~IsDebugEnabled

\* debugLogJSON has read the flag while EnableDebug held the mutex.
C39_RacyRead ==
    /\ debug.raced
    /\ debug.at[Logger] = "debugLogJSON"
    /\ debug.at[Switcher] = "enable_close"
    /\ debug.debugMutex = Switcher
    /\ debug.created = 0

=============================================================================
